---- MODULE Spec2Model ----
(***************************************************************************)
(* Trend-scoring and content-safety pipeline of pr-campaign-system.        *)
(*                                                                         *)
(* Modelled here:                                                          *)
(*   - AIService (services/angle_generation/ai_service.py): the provider   *)
(*     registry, generate_with_fallback and its callers;                   *)
(*   - AIContentCategorizer (services/content_categorization):             *)
(*     categorize_content and its helpers;                                 *)
(*   - RedditService (services/trend_detection/reddit_service.py): the     *)
(*     collection loop of get_trending_topics and the inclusion policy;    *)
(*   - the scoring functions of tasks/trend_scoring.py, its advanced       *)
(*     scoring and decay tasks, and DataEnrichmentService.enrich_trend;    *)
(*   - the daily run and the cleanup of tasks/daily_analysis.py over the   *)
(*     trends and campaigns tables, one run at a time and two at once.     *)
(*                                                                         *)
(* Conventions.  Confidences and 0..1 scores are integers in tenths        *)
(* (7 stands for 0.7).  Text that the code inspects character by character *)
(* (subreddit names, flairs, titles) is a sequence of one-character        *)
(* strings; Lower models str.lower().  A Python value that may be None or  *)
(* of the wrong type is a record [t |-> tag, v |-> value].  Trend scores    *)
(* are integers in thousandths and time is counted in whole days.          *)
(***************************************************************************)
EXTENDS Integers, Sequences, FiniteSets, TLC

VARIABLES
    settings,        \* app.core.config.settings (global settings object)
    providers,       \* AIService.providers: registered names, in insertion order
    default_provider,\* AIService.default_provider
    g_pc,            \* generate_with_fallback: "idle" | "primary" | "fallback" | "returned" | "raised"
    g_idx,           \* generate_with_fallback: position of the fallback loop in providers
    g_attempts,      \* provider calls made by the current generate_with_fallback call
    g_result,        \* value returned by generate_with_fallback (NoReply if none)
    g_caller,        \* who awaits generate_with_fallback
    g_calls,         \* generate_with_fallback calls issued by the operation in progress
    a_pc,            \* analyze_trend_sustainability / generate_campaign_ideas: "idle" | "awaiting" | "done"
    a_op,            \* which of the two is in progress or was last called
    a_trend,         \* its trend argument
    a_result,        \* what it returned (or that it raised)
    c_pc,            \* categorize_content: "idle" | "awaiting" | "done"
    c_args,          \* its arguments: subreddit and reddit_metadata
    c_signals,       \* its local metadata_signals
    c_verdict,       \* the ContentCategory it returned (or that it raised)
    ai_categorizer,  \* RedditService.ai_categorizer is not None
    reddit,          \* RedditService.reddit is not None
    r_pc,            \* get_trending_topics: "idle" | "looping" | "categorizing" | "returned"
    r_count,         \* posts taken from the listing so far
    r_post,          \* the post of the current iteration
    r_category,      \* content_category of the current iteration (NoVerdict = None)
    r_included,      \* whether the last post decided was appended: "none" | "yes" | "no"
    r_trends,        \* the list `trends`; the returned list once r_pc = "returned"
    s_in,            \* score functions: the arguments of the call
    s_fn,            \* score functions: which one was called ("none" before the call)
    s_out,           \* score functions: what the call returned
    now,             \* the clock, in whole days
    db,              \* the committed tables: trends and campaigns
    session,         \* the tables as the open session sees them, pending changes included
    d_pc,            \* daily run: its stage
    d_runs,          \* daily runs started
    d_all,           \* daily run: all_trends
    d_i,             \* daily run: index of the loop in progress
    d_processed,     \* daily run: processed_trends, as row numbers
    d_scored,        \* daily run: scored_trends, as row numbers
    d_log,           \* daily run: what dedup did with each candidate
    d_outcomes,      \* daily run: what each collector did
    d_result,        \* daily run: the summary it returned, or that it raised
    d_snapshot,      \* the committed tables when the run started
    t_passes,        \* decay passes that committed
    t_decayed_at,    \* day of the last decay pass that committed (-1: none)
    e_pc,            \* enrich_trend: "idle" | "gathering" | "done"
    e_metadata,      \* enrich_trend: what trend.metadata evaluates to
    e_trend,         \* enrich_trend: its trend argument
    e_results,       \* enrich_trend: outcome of each sub-query
    e_stored,        \* enrich_trend: what the trend's metadata holds for each facet
    e_outcome,       \* enrich_trend: "none" | "returned" | "raised"
    h_silent,        \* the providers that never answer a request
    k_pc,            \* concurrent runs: stage of each run's deduplication
    k_cand,          \* concurrent runs: the candidate each run deduplicates
    k_plan,          \* concurrent runs: what each run's session holds uncommitted
    k_overlap        \* concurrent runs: some run started while another was in progress

gatewayVars == <<providers, default_provider, g_pc, g_idx, g_attempts, g_result, g_caller, g_calls>>
callerVars == <<a_pc, a_op, a_trend, a_result>>
catVars == <<c_pc, c_args, c_signals, c_verdict>>
redditVars == <<ai_categorizer, reddit, r_pc, r_count, r_post, r_category, r_included, r_trends>>
scoreVars == <<s_in, s_fn, s_out>>
storeVars == <<now, db, session>>
dailyVars == <<d_pc, d_runs, d_all, d_i, d_processed, d_scored, d_log, d_outcomes, d_result,
               d_snapshot>>
decayVars == <<t_passes, t_decayed_at>>
enrichVars == <<e_pc, e_metadata, e_trend, e_results, e_stored, e_outcome>>
liveVars == <<h_silent>>
raceVars == <<k_pc, k_cand, k_plan, k_overlap>>
envVars == <<liveVars, raceVars>>
taskVars == <<scoreVars, storeVars, dailyVars, decayVars, enrichVars, envVars>>

-----------------------------------------------------------------------------
(* Bounds of the model *)

\* longest subreddit name / flair / title drawn as input
MaxStrLen == 2
\* AI confidences are drawn from -MaxNegConf .. MaxConf (tenths)
MaxConf == 12
MaxNegConf == 2
\* number of posts PRAW delivers to one get_trending_topics call
MaxPosts == 2
\* most campaigns in one AI reply that pass _validate_campaign_structure
MaxCampaigns == 2
\* daily runs started in one behaviour
MaxRuns == 1
\* last day the clock reaches
MaxDay == 4
\* decay passes that commit in one behaviour
MaxPasses == 2
\* candidates of a run in which more trends are retained than campaigns are made for
MaxRetained == 11

-----------------------------------------------------------------------------
(* Python values *)

BoolSet == {TRUE, FALSE}

RECURSIVE SeqsUpTo(_, _)
\* all sequences over S of length <= n
SeqsUpTo(S, n) ==
    IF n = 0 THEN {<<>>}
    ELSE LET shorter == SeqsUpTo(S, n - 1)
         IN shorter \cup {Append(s, c) : s \in shorter, c \in S}

\* str.lower() on one character
LowerChar(c) ==
    CASE c = "A" -> "a"
      [] c = "B" -> "b"
      [] OTHER -> c

\* str.lower()
Lower(s) == [i \in 1..Len(s) |-> LowerChar(s[i])]

\* Python's `sub in s` on strings
Contains(sub, s) ==
    \E i \in 0..(Len(s) - Len(sub)) :
        \A j \in 1..Len(sub) : s[i + j] = sub[j]

-----------------------------------------------------------------------------
(* AIService: provider registry *)

\* the order in which __init__ registers providers (lines 139-149)
ProviderNames == <<"openrouter", "openai", "anthropic">>

\* settings.DEFAULT_AI_MODEL / settings.BACKUP_AI_MODEL as [vendor, name]; vendor "" = no "/"
DefaultAIModel == [vendor |-> "anthropic", name |-> "claude-3.5-sonnet"]
BackupAIModel == [vendor |-> "openai", name |-> "gpt-4"]

KeyOf(name) ==
    CASE name = "openrouter" -> "OPENROUTER_API_KEY"
      [] name = "openai" -> "OPENAI_API_KEY"
      [] name = "anthropic" -> "ANTHROPIC_API_KEY"

\* AIService.__init__: one provider per API key that is set, in this order
InitProviders(s) ==
    LET add(acc, name) == IF s[KeyOf(name)] THEN Append(acc, name) ELSE acc
    IN add(add(add(<<>>, "openrouter"), "openai"), "anthropic")

Registered(name) == \E i \in 1..Len(providers) : providers[i] = name

\* AIService._adjust_model_for_provider
AdjustModelForProvider(model, provider) ==
    CASE provider = "openrouter" ->
            IF model.vendor = "" THEN
                IF model.name = "gpt-4" THEN [model EXCEPT !.vendor = "openai"]
                ELSE IF model.name = "claude-3.5-sonnet" THEN [model EXCEPT !.vendor = "anthropic"]
                ELSE model
            ELSE model
      [] provider \in {"openai", "anthropic"} -> [model EXCEPT !.vendor = ""]
      [] OTHER -> model

-----------------------------------------------------------------------------
(* AIService.generate_with_fallback *)

NoReply == [json |-> "none", safety_level |-> "null", confidence |-> [t |-> "missing", v |-> 0],
            campaigns |-> 0]

\* SkipsDefault with the `continue` of line 185 dropped
SkipsDefault_NoSkip(name) == FALSE

\* line 184: `if provider_name == self.default_provider: continue`
SkipsDefault(name) == name = default_provider

\* NextFallback starting one position too far
NextFallback_OffByOne(i) ==
    IF \E j \in (i + 1)..Len(providers) : ~SkipsDefault(providers[j])
    THEN CHOOSE j \in (i + 1)..Len(providers) :
            /\ ~SkipsDefault(providers[j])
            /\ \A k \in (i + 1)..(j - 1) : SkipsDefault(providers[k])
    ELSE Len(providers) + 1

\* first position >= i of the fallback loop (line 183) whose provider is not skipped
NextFallback(i) ==
    IF \E j \in i..Len(providers) : ~SkipsDefault(providers[j])
    THEN CHOOSE j \in i..Len(providers) :
            /\ ~SkipsDefault(providers[j])
            /\ \A k \in i..(j - 1) : SkipsDefault(providers[k])
    ELSE Len(providers) + 1

\* control moves into the fallback loop at position i: either the next provider
\* is awaited, or the loop is exhausted and line 198 raises
EnterFallback(i) ==
    LET j == NextFallback(i)
    IN /\ g_idx' = j
       /\ g_pc' = IF j <= Len(providers) THEN "fallback" ELSE "raised"

\* a caller awaits generate_with_fallback (lines 167-176): the default provider
\* is awaited when registered, otherwise control falls into the loop
GatewayEnter(caller) ==
    /\ g_caller' = caller
    /\ g_attempts' = <<>>
    /\ g_result' = NoReply
    /\ g_calls' = 1
    /\ IF Registered(default_provider)
       THEN g_pc' = "primary" /\ g_idx' = 0
       ELSE EnterFallback(1)
    /\ UNCHANGED <<providers, default_provider>>

\* the awaited default provider completes: with a reply, or with an exception
PrimaryCompletes(replies) ==
    /\ g_pc = "primary"
    /\ \E ok \in BoolSet, r \in replies :
        LET reply == IF ok THEN r ELSE NoReply
        IN /\ g_attempts' = Append(g_attempts,
                [provider |-> default_provider, model |-> DefaultAIModel,
                 ok |-> ok, reply |-> reply])
           /\ g_result' = reply
           /\ IF ok
              THEN g_pc' = "returned" /\ g_idx' = g_idx
              ELSE EnterFallback(1)
    /\ UNCHANGED <<providers, default_provider, g_caller, g_calls>>

\* the awaited fallback provider completes (lines 187-196)
FallbackCompletes(replies) ==
    /\ g_pc = "fallback"
    /\ \E ok \in BoolSet, r \in replies :
        LET reply == IF ok THEN r ELSE NoReply
        IN /\ g_attempts' = Append(g_attempts,
                [provider |-> providers[g_idx],
                 model |-> AdjustModelForProvider(BackupAIModel, providers[g_idx]),
                 ok |-> ok, reply |-> reply])
           /\ g_result' = reply
           /\ IF ok
              THEN g_pc' = "returned" /\ g_idx' = g_idx
              ELSE EnterFallback(g_idx + 1)
    /\ UNCHANGED <<providers, default_provider, g_caller, g_calls>>

GatewayDone == g_pc \in {"returned", "raised"}
GatewayFree == g_pc \in {"idle", "returned", "raised"}

\* an operation that returns without reaching generate_with_fallback
GatewayUntouched ==
    /\ g_calls' = 0
    /\ UNCHANGED <<providers, default_provider, g_pc, g_idx, g_attempts, g_result, g_caller>>

-----------------------------------------------------------------------------
(* settings *)

DefaultProviderChoices == {"openrouter", "openai", "anthropic", "azure"}

\* defaults of app/core/config.py (no API key set)
DefaultSettings ==
    [OPENROUTER_API_KEY |-> FALSE, OPENAI_API_KEY |-> FALSE, ANTHROPIC_API_KEY |-> FALSE,
     DEFAULT_AI_PROVIDER |-> "openrouter",
     AI_CATEGORIZATION_ENABLED |-> TRUE, FALLBACK_TO_KEYWORD_FILTER |-> TRUE,
     CONTENT_FILTER_ENABLED |-> FALSE, ALLOW_CAUTION_CONTENT |-> TRUE,
     AI_CATEGORIZATION_MIN_CONFIDENCE |-> 7,
     AI_CATEGORIZATION_USER_PROMPT_TEMPLATE |-> "formats",
     REDDIT_CLIENT_ID |-> FALSE,
     MIN_TREND_SCORE |-> 300,
     MIN_SUSTAINABILITY_SCORE |-> 700]

\* every choice of API keys and of DEFAULT_AI_PROVIDER
ProviderSettings ==
    {[DefaultSettings EXCEPT !.OPENROUTER_API_KEY = k1, !.OPENAI_API_KEY = k2,
                             !.ANTHROPIC_API_KEY = k3, !.DEFAULT_AI_PROVIDER = d] :
        k1 \in BoolSet, k2 \in BoolSet, k3 \in BoolSet, d \in DefaultProviderChoices}

\* AIService() constructed under settings s, no call in progress
GatewayInit(s) ==
    /\ providers = InitProviders(s)
    /\ default_provider = s.DEFAULT_AI_PROVIDER
    /\ g_pc = "idle"
    /\ g_idx = 0
    /\ g_attempts = <<>>
    /\ g_result = NoReply
    /\ g_caller = "none"
    /\ g_calls = 0

-----------------------------------------------------------------------------
(* AIService.analyze_trend_sustainability and AIService.generate_campaign_ideas *)

\* The prompts read trend.source (lines 250 and 356).  models/trend.py defines no
\* `source` column, so on a Trend row that read raises AttributeError; has_source
\* says whether the argument has the attribute.
TrendArgs == [has_source : BoolSet]

NoTrend == [has_source |-> FALSE]
NoResult == [raised |-> FALSE, method |-> "none", count |-> 0]

\* _fallback_sustainability_analysis (lines 527-546): 'method': 'fallback_heuristic'
FallbackSustainabilityAnalysis == [raised |-> FALSE, method |-> "fallback_heuristic", count |-> 0]

\* _generate_template_campaign_ideas (lines 425-525): three ideas, 'model': 'template-based'
TemplateCampaignIdeas == [raised |-> FALSE, method |-> "template-based", count |-> 3]

\* an exception leaving the operation
Raised == [raised |-> TRUE, method |-> "none", count |-> 0]

\* SustainabilityOutcome with the handler of lines 288-290 missing
SustainabilityOutcome_NoHandler(pc, reply) ==
    IF pc = "raised" THEN Raised
    ELSE IF reply.json = "invalid" THEN FallbackSustainabilityAnalysis
    ELSE [raised |-> FALSE, method |-> "ai", count |-> 0]

\* lines 280-290: what analyze_trend_sustainability returns once
\* generate_with_fallback has returned `reply` or raised
SustainabilityOutcome(pc, reply) ==
    IF pc = "raised" THEN FallbackSustainabilityAnalysis
    ELSE IF reply.json = "invalid" THEN FallbackSustainabilityAnalysis
    ELSE [raised |-> FALSE, method |-> "ai", count |-> 0]

\* lines 328-337 and 399-415: what generate_campaign_ideas returns once
\* generate_with_fallback has returned `reply` or raised.  An array reply raises
\* AttributeError at result.get (line 401), caught at line 333.
IdeasOutcome(pc, reply) ==
    IF pc = "raised" THEN TemplateCampaignIdeas
    ELSE IF reply.json # "object" THEN TemplateCampaignIdeas
    ELSE IF reply.campaigns > 0
         THEN [raised |-> FALSE, method |-> "ai-generated", count |-> reply.campaigns]
         ELSE TemplateCampaignIdeas

CallersIdle ==
    /\ a_pc = "idle"
    /\ a_op = "none"
    /\ a_trend = NoTrend
    /\ a_result = NoResult

\* analyze_trend_sustainability(trend), up to its await (lines 233-278)
AnalyzeTrendSustainability ==
    /\ a_pc \in {"idle", "done"}
    /\ GatewayFree
    /\ \E trend \in TrendArgs :
        /\ a_trend' = trend
        /\ a_op' = "sustainability"
        /\ IF providers = <<>> \/ ~trend.has_source
           THEN /\ a_result' = FallbackSustainabilityAnalysis
                /\ a_pc' = "done"
                /\ GatewayUntouched
           ELSE /\ a_result' = NoResult
                /\ a_pc' = "awaiting"
                /\ GatewayEnter("sustainability")
    /\ UNCHANGED <<settings, catVars, redditVars, taskVars>>

\* analyze_trend_sustainability resumes after generate_with_fallback
AnalyzeResumes ==
    /\ a_pc = "awaiting"
    /\ a_op = "sustainability"
    /\ GatewayDone
    /\ a_result' = SustainabilityOutcome(g_pc, g_result)
    /\ a_pc' = "done"
    /\ UNCHANGED <<settings, gatewayVars, a_op, a_trend, catVars, redditVars, taskVars>>

\* generate_campaign_ideas(trend), up to the await in _generate_ai_campaign_ideas
GenerateCampaignIdeas ==
    /\ a_pc \in {"idle", "done"}
    /\ GatewayFree
    /\ \E trend \in TrendArgs :
        /\ a_trend' = trend
        /\ a_op' = "ideas"
        /\ IF providers = <<>> \/ ~trend.has_source
           THEN /\ a_result' = TemplateCampaignIdeas
                /\ a_pc' = "done"
                /\ GatewayUntouched
           ELSE /\ a_result' = NoResult
                /\ a_pc' = "awaiting"
                /\ GatewayEnter("ideas")
    /\ UNCHANGED <<settings, catVars, redditVars, taskVars>>

\* generate_campaign_ideas resumes after generate_with_fallback
IdeasResume ==
    /\ a_pc = "awaiting"
    /\ a_op = "ideas"
    /\ GatewayDone
    /\ a_result' = IdeasOutcome(g_pc, g_result)
    /\ a_pc' = "done"
    /\ UNCHANGED <<settings, gatewayVars, a_op, a_trend, catVars, redditVars, taskVars>>

\* what a provider may answer to the sustainability prompt / the campaign prompt
SustainabilityReplies == {[NoReply EXCEPT !.json = j] : j \in {"invalid", "array", "object"}}
IdeasReplies ==
    {[NoReply EXCEPT !.json = j, !.campaigns = n] :
        j \in {"invalid", "array", "object"}, n \in 0..MaxCampaigns}

CallerReplies == IF g_caller = "ideas" THEN IdeasReplies ELSE SustainabilityReplies

CallerPrimary ==
    /\ g_caller \in {"sustainability", "ideas"}
    /\ PrimaryCompletes(CallerReplies)
    /\ UNCHANGED <<settings, callerVars, catVars, redditVars, taskVars>>

CallerFallback ==
    /\ g_caller \in {"sustainability", "ideas"}
    /\ FallbackCompletes(CallerReplies)
    /\ UNCHANGED <<settings, callerVars, catVars, redditVars, taskVars>>

-----------------------------------------------------------------------------
(* AIContentCategorizer *)

Alphabet == {"a", "A", "b"}

\* settings.BLOCKED_SUBREDDITS and settings.BLOCKED_FLAIRS, over the model's alphabet
BLOCKED_SUBREDDITS == {<<"a">>}
BLOCKED_FLAIRS == {<<"a">>}

\* ContentSafetyLevel values (lines 16-24)
ContentSafetyLevel == {"safe", "caution", "political", "violent", "controversial", "nsfw", "blocked"}

NoneStr == [t |-> "none", v |-> <<>>]
Str(s) == [t |-> "str", v |-> s]

\* the metadata RedditService._extract_reddit_metadata hands over (lines 248-274);
\* link_flair_text is None or a string of at most n characters
RedditMetadata(n) ==
    [over_18 : BoolSet, locked : BoolSet, gilded : 0..1, awards_received : 0..1,
     link_flair_text : {NoneStr} \cup {Str(f) : f \in SeqsUpTo(Alphabet, n)}]

NoSignals == [nsfw |-> FALSE, post_flair |-> NoneStr, locked |-> FALSE, gilded |-> 0, awarded |-> 0]

\* _extract_metadata_signals (lines 107-137); an absent key reads as False / None / 0
ExtractMetadataSignals(md) ==
    [nsfw |-> md.over_18,
     post_flair |-> IF md.link_flair_text.t = "str" /\ md.link_flair_text.v # <<>>
                    THEN Str(Lower(md.link_flair_text.v)) ELSE NoneStr,
     locked |-> md.locked,
     gilded |-> IF md.gilded > 0 THEN md.gilded ELSE 0,
     awarded |-> IF md.awards_received > 0 THEN md.awards_received ELSE 0]

\* _check_immediate_blocks comparing the subreddit as given
CheckImmediateBlocks_CaseSensitive(subreddit, signals) ==
    IF signals.nsfw THEN "NSFW content"
    ELSE IF subreddit \in {Lower(b) : b \in BLOCKED_SUBREDDITS} THEN "Blocked subreddit"
    ELSE IF /\ signals.post_flair.t = "str"
            /\ \E b \in BLOCKED_FLAIRS : Contains(Lower(b), signals.post_flair.v)
         THEN "Blocked flair"
    ELSE "None"

\* _check_immediate_blocks (lines 139-165): the reason for the block, or "None"
CheckImmediateBlocks(subreddit, signals) ==
    IF signals.nsfw THEN "NSFW content"
    ELSE IF Lower(subreddit) \in {Lower(b) : b \in BLOCKED_SUBREDDITS} THEN "Blocked subreddit"
    ELSE IF /\ signals.post_flair.t = "str"
            /\ \E b \in BLOCKED_FLAIRS : Contains(Lower(b), signals.post_flair.v)
         THEN "Blocked flair"
    ELSE "None"

NoVerdict ==
    [safety_level |-> "none", confidence |-> 0, primary_category |-> "none",
     is_brand_safe |-> FALSE, raised |-> FALSE]

\* ContentCategory(...)
Verdict(level, confidence, category, safe) ==
    [safety_level |-> level, confidence |-> confidence, primary_category |-> category,
     is_brand_safe |-> safe, raised |-> FALSE]

\* lines 71-79
AutoBlocked == Verdict("blocked", 10, "auto_blocked", FALSE)

\* the exception leaves categorize_content
TopLevelHandler_Reraises == [NoVerdict EXCEPT !.raised = TRUE]

\* lines 94-105: the verdict of the top-level handler
TopLevelHandler == Verdict("caution", 5, "analysis_failed", FALSE)

\* lines 250-260: the verdict _combine_signals returns from its own handler
CombineError == Verdict("caution", 3, "error", FALSE)

\* the strings a reply may carry as safety_level; "<missing>" = no such key,
\* "<null>" = JSON null
AILevelStrings ==
    {"SAFE", "safe", "CAUTION", "POLITICAL", "VIOLENT", "CONTROVERSIAL", "NSFW", "BLOCKED",
     "UNKNOWN", "<missing>", "<null>"}

\* str.lower() on those strings
LowerLevel(s) ==
    CASE s = "SAFE" -> "safe"
      [] s = "CAUTION" -> "caution"
      [] s = "POLITICAL" -> "political"
      [] s = "VIOLENT" -> "violent"
      [] s = "CONTROVERSIAL" -> "controversial"
      [] s = "NSFW" -> "nsfw"
      [] s = "BLOCKED" -> "blocked"
      [] s = "UNKNOWN" -> "unknown"
      [] OTHER -> s

Num(v) == [t |-> "num", v |-> v]
\* the values a reply may carry as confidence: a number, no such key, or a
\* value float() rejects
AIConfidences ==
    {Num(v) : v \in (0 - MaxNegConf)..MaxConf}
        \cup {[t |-> "missing", v |-> 0], [t |-> "bad", v |-> 0]}

\* lines 204-211: the dictionary _ai_categorize returns from its handler
FallbackCategorization ==
    [json |-> "object", safety_level |-> "CAUTION", confidence |-> Num(3), campaigns |-> 0]

\* lines 196-211: what _ai_categorize returns once generate_with_fallback has
\* returned `reply` or raised
AICategorize(pc, reply) ==
    IF pc = "raised" \/ reply.json = "invalid" THEN FallbackCategorization ELSE reply

\* _combine_signals with the award bonus given at every safety level
CombineSignals_BonusAnyLevel(ai_result, signals) ==
    IF \/ ai_result.json # "object"
       \/ ai_result.safety_level = "<null>"
       \/ ai_result.confidence.t = "bad"
       \/ (ai_result.safety_level # "<missing>"
           /\ LowerLevel(ai_result.safety_level) \notin ContentSafetyLevel)
    THEN CombineError
    ELSE
    LET level0 == IF ai_result.safety_level = "<missing>" THEN "caution"
                  ELSE LowerLevel(ai_result.safety_level)
        conf0 == IF ai_result.confidence.t = "missing" THEN 5 ELSE ai_result.confidence.v
        conf1 == IF signals.gilded > 0 \/ signals.awarded > 0
                 THEN (IF conf0 + 1 < 10 THEN conf0 + 1 ELSE 10) ELSE conf0
        downgrade == signals.locked /\ level0 = "safe"
        level2 == IF downgrade THEN "caution" ELSE level0
        conf2 == IF downgrade THEN (IF conf1 - 2 > 3 THEN conf1 - 2 ELSE 3) ELSE conf1
    IN Verdict(level2, conf2, "ai", level2 \in {"safe", "caution"} /\ conf2 >= 7)

\* _combine_signals deciding brand safety before the metadata adjustments
CombineSignals_StaleDecision(ai_result, signals) ==
    IF \/ ai_result.json # "object"
       \/ ai_result.safety_level = "<null>"
       \/ ai_result.confidence.t = "bad"
       \/ (ai_result.safety_level # "<missing>"
           /\ LowerLevel(ai_result.safety_level) \notin ContentSafetyLevel)
    THEN CombineError
    ELSE
    LET level0 == IF ai_result.safety_level = "<missing>" THEN "caution"
                  ELSE LowerLevel(ai_result.safety_level)
        conf0 == IF ai_result.confidence.t = "missing" THEN 5 ELSE ai_result.confidence.v
        conf1 == IF (signals.gilded > 0 \/ signals.awarded > 0) /\ level0 = "safe"
                 THEN (IF conf0 + 1 < 10 THEN conf0 + 1 ELSE 10) ELSE conf0
        downgrade == signals.locked /\ level0 = "safe"
        level2 == IF downgrade THEN "caution" ELSE level0
        conf2 == IF downgrade THEN (IF conf1 - 2 > 3 THEN conf1 - 2 ELSE 3) ELSE conf1
    IN Verdict(level2, conf2, "ai", level0 \in {"safe", "caution"} /\ conf0 >= 7)

\* _combine_signals (lines 213-260).  The handler of line 250 is reached when
\* ai_result is no dictionary (.get fails), safety_level is null (.lower fails)
\* or no ContentSafetyLevel value, or float() rejects the confidence.
CombineSignals(ai_result, signals) ==
    IF \/ ai_result.json # "object"
       \/ ai_result.safety_level = "<null>"
       \/ ai_result.confidence.t = "bad"
       \/ (ai_result.safety_level # "<missing>"
           /\ LowerLevel(ai_result.safety_level) \notin ContentSafetyLevel)
    THEN CombineError
    ELSE
    LET level0 == IF ai_result.safety_level = "<missing>" THEN "caution"
                  ELSE LowerLevel(ai_result.safety_level)
        conf0 == IF ai_result.confidence.t = "missing" THEN 5 ELSE ai_result.confidence.v
        \* lines 226-229: min(1.0, confidence + 0.1)
        conf1 == IF (signals.gilded > 0 \/ signals.awarded > 0) /\ level0 = "safe"
                 THEN (IF conf0 + 1 < 10 THEN conf0 + 1 ELSE 10) ELSE conf0
        \* lines 231-235: max(confidence - 0.2, 0.3)
        downgrade == signals.locked /\ level0 = "safe"
        level2 == IF downgrade THEN "caution" ELSE level0
        conf2 == IF downgrade THEN (IF conf1 - 2 > 3 THEN conf1 - 2 ELSE 3) ELSE conf1
    IN Verdict(level2, conf2, "ai", level2 \in {"safe", "caution"} /\ conf2 >= 7)

NoArgs ==
    [subreddit |-> <<>>,
     reddit_metadata |-> [over_18 |-> FALSE, locked |-> FALSE, gilded |-> 0,
                          awards_received |-> 0, link_flair_text |-> NoneStr]]

CategorizerIdle ==
    /\ c_pc = "idle"
    /\ c_args = NoArgs
    /\ c_signals = NoSignals
    /\ c_verdict = NoVerdict

\* categorize_content(args), up to the await of line 190 or to its return.
\* str.format of the prompt template (line 177) is outside the try of
\* _ai_categorize: a template it cannot format raises into the top-level handler.
CategorizeContentWith(args) ==
    LET signals == ExtractMetadataSignals(args.reddit_metadata)
        block == CheckImmediateBlocks(args.subreddit, signals)
    IN /\ c_args' = args
       /\ c_signals' = signals
       /\ IF block # "None"
          THEN /\ c_verdict' = AutoBlocked
               /\ c_pc' = "done"
               /\ GatewayUntouched
          ELSE IF settings.AI_CATEGORIZATION_USER_PROMPT_TEMPLATE # "formats"
          THEN /\ c_verdict' = TopLevelHandler
               /\ c_pc' = "done"
               /\ GatewayUntouched
          ELSE /\ c_verdict' = NoVerdict
               /\ c_pc' = "awaiting"
               /\ GatewayEnter("categorize")

\* a caller outside the model awaits categorize_content.  The categorizer keeps
\* no state between calls (every variable a call reads is set by the call), so
\* one call from the idle state stands for any call.
CategorizeContent(argSet) ==
    /\ c_pc = "idle"
    /\ GatewayFree
    /\ \E args \in argSet : CategorizeContentWith(args)
    /\ UNCHANGED <<settings, callerVars, redditVars, taskVars>>

\* categorize_content resumes after generate_with_fallback (lines 196-211, 85-92)
CategorizeResumes ==
    /\ c_pc = "awaiting"
    /\ g_caller = "categorize"
    /\ GatewayDone
    /\ c_verdict' = CombineSignals(AICategorize(g_pc, g_result), c_signals)
    /\ c_pc' = "done"
    /\ UNCHANGED <<settings, gatewayVars, callerVars, c_args, c_signals, redditVars, taskVars>>

CategorizerPrimary(replies) ==
    /\ g_caller = "categorize"
    /\ PrimaryCompletes(replies)
    /\ UNCHANGED <<settings, callerVars, catVars, redditVars, taskVars>>

CategorizerFallback(replies) ==
    /\ g_caller = "categorize"
    /\ FallbackCompletes(replies)
    /\ UNCHANGED <<settings, callerVars, catVars, redditVars, taskVars>>

\* what a provider may answer to the categorization prompt
CategorizerReplies ==
    {[NoReply EXCEPT !.json = j] : j \in {"invalid", "array"}}
        \cup {[NoReply EXCEPT !.json = "object", !.safety_level = l, !.confidence = c] :
                l \in AILevelStrings, c \in AIConfidences}

-----------------------------------------------------------------------------
(* RedditService *)

\* line 294: `content_category.confidence < 0.8`
ControversialThreshold == 8

\* the configured subreddit the posts are fetched from (settings.REDDIT_SUBREDDITS)
SubredditName == <<"b">>

\* settings.CONTENT_FILTER_{WAR,POLITICS,VIOLENCE}_KEYWORDS and the subreddit list
\* of lines 343-345, over the model's alphabet
CONTENT_FILTER_KEYWORDS == {<<"a">>}
RESTRICTED_SUBREDDITS == {<<"a">>}

\* a submission: its title, over_18 flag, own subreddit, and the value
\* _calculate_trending_score gives it
Posts ==
    [title : {<<"b">>, <<"A">>}, over_18 : BoolSet, subreddit : {<<"a">>, <<"b">>},
     trending_score : {3, 8}]

NoPost == [title |-> <<>>, over_18 |-> FALSE, subreddit |-> <<>>, trending_score |-> 0]

\* _extract_reddit_metadata (lines 248-274)
ExtractRedditMetadata(post) ==
    [over_18 |-> post.over_18, locked |-> FALSE, gilded |-> 0, awards_received |-> 0,
     link_flair_text |-> NoneStr]

\* _should_include_content with `<=` for `<` in line 294
ShouldIncludeContent_Boundary(category, s) ==
    IF category = NoVerdict THEN TRUE
    ELSE IF category.safety_level \in {"blocked", "violent", "nsfw", "political"} THEN FALSE
    ELSE IF category.safety_level = "controversial"
         THEN category.confidence <= ControversialThreshold
    ELSE IF category.safety_level = "caution"
         THEN s.ALLOW_CAUTION_CONTENT
              /\ category.confidence >= s.AI_CATEGORIZATION_MIN_CONFIDENCE
    ELSE category.safety_level = "safe"

\* _should_include_content (lines 276-301)
ShouldIncludeContent(category, s) ==
    IF category = NoVerdict THEN TRUE
    ELSE IF category.safety_level \in {"blocked", "violent", "nsfw", "political"} THEN FALSE
    ELSE IF category.safety_level = "controversial"
         THEN category.confidence < ControversialThreshold
    ELSE IF category.safety_level = "caution"
         THEN s.ALLOW_CAUTION_CONTENT
              /\ category.confidence >= s.AI_CATEGORIZATION_MIN_CONFIDENCE
    ELSE category.safety_level = "safe"

\* _is_content_filtered (lines 303-356); selftext is empty
IsContentFiltered(post) ==
    \/ \E k \in CONTENT_FILTER_KEYWORDS : Contains(Lower(k), Lower(post.title \o <<" ">>))
    \/ Lower(post.subreddit) \in RESTRICTED_SUBREDDITS

\* lines 121-152: the dictionary appended to `trends`
TrendData(post, category) ==
    [title |-> post.title, score |-> post.trending_score, over_18 |-> post.over_18,
     ai_categorization |-> category]

RECURSIVE SortByScore(_)
\* line 158: trends.sort(key=score, reverse=True), a stable sort
SortByScore(seq) ==
    IF seq = <<>> THEN <<>>
    ELSE LET best == CHOOSE i \in 1..Len(seq) :
                        /\ \A j \in 1..Len(seq) : seq[j].score <= seq[i].score
                        /\ \A j \in 1..(i - 1) : seq[j].score < seq[i].score
             rest == [j \in 1..(Len(seq) - 1) |-> IF j < best THEN seq[j] ELSE seq[j + 1]]
         IN <<seq[best]>> \o SortByScore(rest)

\* RedditService.__init__ (lines 18-30)
RedditInit(s) ==
    /\ ai_categorizer = s.AI_CATEGORIZATION_ENABLED
    /\ reddit = s.REDDIT_CLIENT_ID
    /\ r_pc = "idle"
    /\ r_count = 0
    /\ r_post = NoPost
    /\ r_category = NoVerdict
    /\ r_included = "none"
    /\ r_trends = <<>>

\* get_trending_topics is called (lines 42-59)
GetTrendingTopics ==
    /\ r_pc = "idle"
    /\ r_pc' = IF reddit THEN "looping" ELSE "returned"
    /\ r_trends' = <<>>
    /\ UNCHANGED <<settings, gatewayVars, callerVars, catVars,
                   ai_categorizer, reddit, r_count, r_post, r_category, r_included, taskVars>>

\* the decision on r_post once its content_category is known, or without one
Decide(post, category, include) ==
    /\ r_category' = category
    /\ r_included' = IF include THEN "yes" ELSE "no"
    /\ r_trends' = IF include THEN Append(r_trends, TrendData(post, category)) ELSE r_trends
    /\ r_pc' = "looping"

\* one iteration of the loop of line 77, up to the await of line 85 or to the
\* end of the iteration
NextPost ==
    /\ r_pc = "looping"
    /\ r_count < MaxPosts
    /\ \E post \in Posts :
        /\ r_post' = post
        /\ r_count' = r_count + 1
        /\ IF settings.AI_CATEGORIZATION_ENABLED /\ ai_categorizer
           THEN /\ CategorizeContentWith(
                      [subreddit |-> SubredditName,
                       reddit_metadata |-> ExtractRedditMetadata(post)])
                /\ r_pc' = "categorizing"
                /\ UNCHANGED <<r_category, r_included, r_trends>>
           ELSE /\ Decide(post, NoVerdict,
                          ~(settings.CONTENT_FILTER_ENABLED /\ IsContentFiltered(post)))
                /\ UNCHANGED <<gatewayVars, catVars>>
    /\ UNCHANGED <<settings, callerVars, ai_categorizer, reddit, taskVars>>

\* the iteration resumes after categorize_content (lines 92-108)
CategorizationReturns ==
    /\ r_pc = "categorizing"
    /\ c_pc = "done"
    /\ IF c_verdict.raised
       THEN Decide(r_post, NoVerdict,
                   ~(/\ settings.FALLBACK_TO_KEYWORD_FILTER
                     /\ settings.CONTENT_FILTER_ENABLED
                     /\ IsContentFiltered(r_post)))
       ELSE Decide(r_post, c_verdict, ShouldIncludeContent(c_verdict, settings))
    /\ UNCHANGED <<settings, gatewayVars, callerVars, catVars,
                   ai_categorizer, reddit, r_count, r_post, taskVars>>

\* the listing is exhausted: sort and return (lines 157-164)
EndOfListing ==
    /\ r_pc = "looping"
    /\ r_trends' = SortByScore(r_trends)
    /\ r_pc' = "returned"
    /\ UNCHANGED <<settings, gatewayVars, callerVars, catVars,
                   ai_categorizer, reddit, r_count, r_post, r_category, r_included, taskVars>>

-----------------------------------------------------------------------------
(* Score functions (tasks/trend_scoring.py, enrichment_service.py,         *)
(* reddit_service.py).  Every score, on the 0..1 and on the 0..100 scale,  *)
(* is an integer in thousandths: 300 stands for 0.3, 100000 for 100.0.     *)
(* Sub-signals that are percentages or counts are plain integers.          *)

\* one unit of a score: 1.0
Unit == 1000

Min(a, b) == IF a < b THEN a ELSE b
Max(a, b) == IF a > b THEN a ELSE b

\* a float attribute or dictionary entry: a number, None, or not there
Float(v) == [t |-> "num", v |-> v]
NoneFloat == [t |-> "none", v |-> 0]
Missing == [t |-> "missing", v |-> 0]

\* dict.get(key, default) on a sub-signal
Get(entry, default) == IF entry.t = "missing" THEN default ELSE entry.v

\* Python `x or default`: None and 0.0 are both falsy
OrDefault(x, default) == IF x.t = "none" \/ x.v = 0 THEN default ELSE x.v

\* the value a score function returned, or that it raised
Returned(v) == [t |-> "num", v |-> v]
FnRaised == [t |-> "raised", v |-> 0]
NoOutcome == [t |-> "none", v |-> 0]

\* keyword lists of lines 241-246 and 298-301, over the model's alphabet
VIRAL_KEYWORDS == {<<"a">>}
FRESH_KEYWORDS == {<<"b">>}
CONTROVERSIAL_KEYWORDS == {<<"a">>, <<"b">>}

\* risk_deductions (lines 273-281) and the default deduction of line 284
RiskDeduction(risk_factor) ==
    CASE risk_factor = "political sensitivity" -> 20
      [] risk_factor = "illegal activity" -> 40
      [] OTHER -> 10

RECURSIVE SumDeductions(_)
SumDeductions(risk_factors) ==
    IF risk_factors = <<>> THEN 0
    ELSE RiskDeduction(Head(risk_factors)) + SumDeductions(Tail(risk_factors))

\* the six facets of trend_metadata / enrichment_data with the sub-signals the
\* score functions read; `bad` marks a facet that is not a dict
EmptyFacets ==
    [bad |-> FALSE,
     related_news |-> 0,
     volume_change_7d |-> Missing,
     volume_change_24h |-> Missing,
     positive |-> Missing,
     negative |-> Missing,
     sentiment_score |-> Missing,
     excitement |-> FALSE,
     risk_factors |-> <<>>,
     top_countries |-> 0,
     age_groups |-> 0,
     opportunity_score |-> Missing]

\* _calculate_pr_potential (lines 143-192)
CalculatePRPotential(trend) ==
    LET md == trend.trend_metadata
        vc == Get(md.volume_change_7d, 0)
        score == Min(30, md.related_news * 3) * Unit
                 + (IF vc > 50 THEN 25 ELSE IF vc > 20 THEN 20 ELSE IF vc > 0 THEN 15 ELSE 0) * Unit
                 + (Get(md.positive, 50) * 20 * Unit) \div 100
                 + Min(15, md.top_countries * 3) * Unit
                 + (Get(md.opportunity_score, 50) * 10 * Unit) \div 100
    IN IF md.bad THEN Returned(50 * Unit)
       ELSE Returned(Min(100 * Unit, Max(0, score)))

\* _calculate_virality_potential (lines 194-252)
CalculateViralityPotential(trend) ==
    LET md == trend.trend_metadata
        vc == Get(md.volume_change_24h, 0)
        title == Lower(trend.title)
        score == (IF vc > 100 THEN 40 ELSE IF vc > 50 THEN 30
                  ELSE IF vc > 20 THEN 20 ELSE IF vc > 0 THEN 10 ELSE 0)
                 + (IF md.age_groups >= 4 THEN 25 ELSE IF md.age_groups >= 3 THEN 20
                    ELSE IF md.age_groups >= 2 THEN 15 ELSE 0)
                 + (IF md.excitement THEN 8 ELSE 0)
                 + (IF \E k \in VIRAL_KEYWORDS : Contains(k, title) THEN 15
                    ELSE IF \E k \in FRESH_KEYWORDS : Contains(k, title) THEN 10 ELSE 0)
    IN IF md.bad THEN Returned(50 * Unit)
       ELSE Returned(Min(100 * Unit, Max(0, score * Unit)))

\* _calculate_brand_safety_score (lines 254-311)
CalculateBrandSafetyScore(trend) ==
    LET md == trend.trend_metadata
        neg == Get(md.negative, 0)
        title == Lower(trend.title)
        score == 100 - SumDeductions(md.risk_factors)
                 - (IF neg > 30 THEN 15 ELSE IF neg > 20 THEN 10 ELSE IF neg > 10 THEN 5 ELSE 0)
                 - 10 * Cardinality({k \in CONTROVERSIAL_KEYWORDS : Contains(k, title)})
    IN IF md.bad THEN Returned(75 * Unit)
       ELSE Returned(Max(0, Min(100 * Unit, score * Unit)))

\* _calculate_overall_score (lines 313-352)
CalculateOverallScore(trend) ==
    LET base == OrDefault(trend.score, 50 * Unit)
        sust == OrDefault(trend.sustainability_score, 50 * Unit)
        pr == OrDefault(trend.pr_potential_score, 50 * Unit)
        viral == OrDefault(trend.viral_potential_score, 50 * Unit)
        safety == OrDefault(trend.brand_safety_score, 75 * Unit)
        sum == (25 * base + 25 * sust + 20 * pr + 15 * viral + 15 * safety) \div 100
        overall == IF safety < 50 * Unit THEN (sum * 8) \div 10 ELSE sum
    IN Returned(Min(100 * Unit, Max(0, overall)))

\* DataEnrichmentService._calculate_sustainability_score (lines 235-288)
CalculateSustainabilityScore(trend, data) ==
    LET vc == Get(data.volume_change_7d, 0)
        ss == Get(data.sentiment_score, 0)
        n == data.related_news
        score == (trend.score.v * 3) \div 10
                 + (IF vc > 20 THEN 30 ELSE IF vc > 0 THEN 15 ELSE 0) * Unit
                 + (IF n >= 5 THEN 20 ELSE IF n >= 3 THEN 15 ELSE IF n >= 1 THEN 10 ELSE 0) * Unit
                 + (IF ss > Unit \div 2 THEN 10 ELSE IF ss > 0 THEN 5 ELSE 0) * Unit
                 + (Get(data.opportunity_score, 50) * Unit) \div 10
    IN IF trend.score.t # "num" \/ data.bad
       THEN Returned(OrDefault(trend.sustainability_score, 50 * Unit))
       ELSE Returned(Min(100 * Unit, Max(0, score)))

Algorithms == {"hot", "top", "rising", "new"}

\* RedditService._calculate_trending_score (lines 170-239); post_age_hours is
\* whole hours, quotients are rounded down to a thousandth
CalculateTrendingScore(post, algorithm) ==
    LET simple == Max(Unit \div 10, Min(Unit, post.score.v \div 10))
        engagement == IF post.score.v > 0
                      THEN Min(Unit, (post.num_comments * Unit) \div post.score.v)
                      ELSE 0
        time_decay == Max(Unit \div 10, (24 * Unit) \div (24 + post.age_hours))
        awards == Min(Unit, (post.total_awards_received * Unit) \div 10)
        trending ==
            CASE algorithm = "hot" ->
                    (40 * simple + 20 * post.upvote_ratio + 20 * engagement
                     + 15 * time_decay + 5 * awards) \div 100
              [] algorithm = "top" ->
                    (60 * simple + 20 * post.upvote_ratio + 10 * engagement
                     + 10 * awards) \div 100
              [] algorithm = "rising" ->
                    (30 * simple + 20 * post.upvote_ratio + 20 * engagement
                     + 25 * time_decay + 5 * awards) \div 100
              [] OTHER ->
                    (20 * simple + 30 * post.upvote_ratio + 20 * engagement
                     + 30 * time_decay) \div 100
    IN IF post.score.t # "num" THEN FnRaised
       ELSE IF 24 + post.age_hours = 0 THEN Returned(simple)
       ELSE Returned(Max(Unit \div 10, Min(Unit, trending)))

\* a Trend as the score functions read it
ScoredTrend(title, score, sustainability, pr, viral, safety, facets) ==
    [title |-> title, score |-> score, sustainability_score |-> sustainability,
     pr_potential_score |-> pr, viral_potential_score |-> viral,
     brand_safety_score |-> safety, trend_metadata |-> facets]

NoScoredTrend ==
    ScoredTrend(<<>>, NoneFloat, NoneFloat, NoneFloat, NoneFloat, NoneFloat, EmptyFacets)

NoSubmission ==
    [score |-> NoneFloat, num_comments |-> 0, upvote_ratio |-> 0, age_hours |-> 0,
     total_awards_received |-> 0]

\* no score function has been applied
ScoresIdle ==
    /\ s_fn = "none"
    /\ s_out = NoOutcome

\* the call of one score function on s_in
Apply(fn, kind, outcome) ==
    /\ s_fn = "none"
    /\ s_in.kind = kind
    /\ s_fn' = fn
    /\ s_out' = outcome
    /\ UNCHANGED <<settings, gatewayVars, callerVars, catVars, redditVars, envVars, s_in,
                   storeVars, dailyVars, decayVars, enrichVars>>

ApplyPRPotential == Apply("pr_potential", "facets", CalculatePRPotential(s_in.trend))
ApplyViralityPotential == Apply("viral_potential", "facets", CalculateViralityPotential(s_in.trend))
ApplyBrandSafetyScore == Apply("brand_safety", "facets", CalculateBrandSafetyScore(s_in.trend))
ApplySustainabilityScore ==
    Apply("sustainability", "facets", CalculateSustainabilityScore(s_in.trend, s_in.trend.trend_metadata))
ApplyOverallScore == Apply("overall", "components", CalculateOverallScore(s_in.trend))
ApplyTrendingScore == Apply("trending", "post", CalculateTrendingScore(s_in.post, s_in.algorithm))

-----------------------------------------------------------------------------
(* The trends table and the session of a task (core/database.py,           *)
(* models/trend.py).  Time is counted in whole days.  A row is identified  *)
(* by its position in the table.  The attributes the tasks read and write  *)
(* on a Trend beyond the declared columns (pr_potential_score,             *)
(* viral_potential_score, brand_safety_score) are kept with the row.       *)

\* timedelta(days=7) of the dedup query, timedelta(days=3) of the decay query
RecencyWindowDays == 7
DecayAgeDays == 3
\* trend_data['title'][:50]
TitleFragmentLen == 50
\* the hard-coded floors of _score_and_filter_trends (lines 194-195)
SustainabilityFloor == 300
ScoreFloor == 200
\* scored_trends[:10]
TopK == 10

\* Trend(...) as _process_and_deduplicate_trends constructs it (lines 145-157)
\* and the column defaults the INSERT applies
NewTrend(trend_data, today) ==
    [title |-> trend_data.title,
     score |-> Float(trend_data.score),
     sustainability_score |-> Float(0),
     pr_potential_score |-> NoneFloat,
     viral_potential_score |-> NoneFloat,
     brand_safety_score |-> NoneFloat,
     volume |-> trend_data.volume,
     platforms |-> trend_data.platforms,
     keywords |-> trend_data.keywords,
     category |-> trend_data.category,
     first_seen_at |-> today,
     created_at |-> today,
     updated_at |-> today,
     status |-> "active",
     is_analyzed |-> FALSE,
     is_brand_safe |-> "none",
     flushed |-> FALSE]

EmptyStore == [trends |-> <<>>, campaigns |-> <<>>]

RECURSIVE LikeMatch(_, _)
\* SQL LIKE on lower-cased operands: % matches any run, _ any one character,
\* and a backslash (PostgreSQL's default escape character) makes the
\* character after it literal
LikeMatch(pattern, str) ==
    IF pattern = <<>> THEN str = <<>>
    ELSE IF Head(pattern) = "%"
         THEN LikeMatch(Tail(pattern), str)
              \/ (str # <<>> /\ LikeMatch(pattern, Tail(str)))
    ELSE IF Head(pattern) = "\\" /\ Len(pattern) > 1
         THEN /\ str # <<>>
              /\ pattern[2] = Head(str)
              /\ LikeMatch(Tail(Tail(pattern)), Tail(str))
    ELSE /\ str # <<>>
         /\ Head(pattern) \in {"_", Head(str)}
         /\ LikeMatch(Tail(pattern), Tail(str))

\* Trend.title.ilike(f"%{title[:50]}%")
ILike(title, fragment) ==
    LikeMatch(<<"%">> \o Lower(fragment) \o <<"%">>, Lower(title))

TitleFragment(title) == SubSeq(title, 1, Min(Len(title), TitleFragmentLen))

\* ExistingMatches with the status condition of line 130 dropped
ExistingMatches_AnyStatus(store, trend_data, today) ==
    {i \in 1..Len(store.trends) :
        /\ ILike(store.trends[i].title, TitleFragment(trend_data.title))
        /\ store.trends[i].created_at >= today - RecencyWindowDays}

\* the rows the query of lines 127-133 selects
ExistingMatches(store, trend_data, today) ==
    {i \in 1..Len(store.trends) :
        /\ ILike(store.trends[i].title, TitleFragment(trend_data.title))
        /\ store.trends[i].status = "active"
        /\ store.trends[i].created_at >= today - RecencyWindowDays}

\* db.execute autoflushes the pending rows: their INSERT assigns the id
Autoflush(trends) == [i \in 1..Len(trends) |-> [trends[i] EXCEPT !.flushed = TRUE]]

\* the merge of lines 139-141 with platforms replaced, not united
MergeInto_ReplacesPlatforms(row, trend_data, today) ==
    [row EXCEPT !.volume = @ + trend_data.volume,
                !.platforms = trend_data.platforms,
                !.updated_at = today]

\* the merge of lines 139-141
MergeInto(row, trend_data, today) ==
    [row EXCEPT !.volume = @ + trend_data.volume,
                !.platforms = @ \cup trend_data.platforms,
                !.updated_at = today]

-----------------------------------------------------------------------------
(* The daily run (tasks/daily_analysis.py).  d_pc is the stage the run is  *)
(* in: "idle" | "google" | "news" | "reddit" | "dedup" | "score" |         *)
(* "campaigns" | "commit" | "done" | "failed".                             *)

\* unsafe_keywords of check_brand_safety (lines 303-306), over the model's alphabet
UNSAFE_KEYWORDS == {<<"b">>}

\* categories _fallback_sustainability_analysis boosts (line 533)
BoostedCategories == {"technology", "entertainment", "business"}

\* AIService.check_brand_safety (lines 292-315): is_safe
CheckBrandSafety(trend) ==
    ~ \E k \in UNSAFE_KEYWORDS : Contains(k, Lower(trend.title))

\* AIService._fallback_sustainability_analysis (lines 527-546): its 'score'
FallbackSustainabilityScore(trend) ==
    Min(Unit, trend.score.v \div 2
              + (IF trend.category \in BoostedCategories THEN 200 ELSE 0)
              + Min(300, Cardinality(trend.platforms) * 100))

\* what analyze_trend_sustainability returned: a dict with or without a
\* 'score', or JSON that is not a dict
Analysis(score) == [dict |-> TRUE, score |-> score]
NotADict == [dict |-> FALSE, score |-> Missing]

\* the retention test of lines 194-196
Retains(sustainability, score, safe) ==
    /\ sustainability >= SustainabilityFloor
    /\ score >= ScoreFloor
    /\ safe

\* key of the sort of lines 208-211, times 10
CombinedScore(trend) == trend.score.v * 6 + trend.sustainability_score.v * 4

RECURSIVE SortByCombined(_, _)
\* SortByCombined with the sort of lines 208-211 left out
SortByCombined_Unsorted(seq, trends) == seq

\* scored_trends.sort(key=..., reverse=True), a stable sort of row numbers
SortByCombined(seq, trends) ==
    IF seq = <<>> THEN <<>>
    ELSE LET key(i) == CombinedScore(trends[seq[i]])
             best == CHOOSE i \in 1..Len(seq) :
                        /\ \A j \in 1..Len(seq) : key(j) <= key(i)
                        /\ \A j \in 1..(i - 1) : key(j) < key(i)
             rest == [j \in 1..(Len(seq) - 1) |-> IF j < best THEN seq[j] ELSE seq[j + 1]]
         IN <<seq[best]>> \o SortByCombined(rest, trends)

\* no run in progress
DailyIdle ==
    /\ d_pc = "idle"
    /\ d_runs = 0
    /\ d_all = <<>>
    /\ d_i = 1
    /\ d_processed = <<>>
    /\ d_scored = <<>>
    /\ d_log = <<>>
    /\ d_outcomes = <<>>
    /\ d_result = [t |-> "none"]
    /\ d_snapshot = EmptyStore

\* _analyze_daily_trends_async is left: its local variables are gone
LocalsDropped ==
    /\ d_all' = <<>>
    /\ d_i' = 1
    /\ d_processed' = <<>>
    /\ d_scored' = <<>>
    /\ d_log' = <<>>
    /\ d_outcomes' = <<>>
    /\ d_snapshot' = EmptyStore

\* the except branch of lines 102-104 committing instead of rolling back
Abort_Commits ==
    /\ db' = session
    /\ session' = session
    /\ d_pc' = "failed"
    /\ d_result' = [t |-> "raised"]
    /\ LocalsDropped

\* the except branch of lines 102-104: rollback, then the exception leaves
Abort ==
    /\ db' = db
    /\ session' = db
    /\ d_pc' = "failed"
    /\ d_result' = [t |-> "raised"]
    /\ LocalsDropped

\* lines 47-57: the session is opened and the four services are constructed;
\* GoogleTrendsService() builds a pytrends client, which may raise
RunStarts(maxRuns) ==
    /\ d_pc \in {"idle", "done", "failed"}
    /\ d_runs < maxRuns
    /\ d_runs' = d_runs + 1
    /\ \E constructed \in BoolSet :
          IF constructed
          THEN /\ session' = db
               /\ d_pc' = "google"
               /\ d_result' = [t |-> "none"]
               /\ d_all' = <<>>
               /\ d_i' = 1
               /\ d_processed' = <<>>
               /\ d_scored' = <<>>
               /\ d_log' = <<>>
               /\ d_outcomes' = <<>>
               /\ d_snapshot' = db
               /\ UNCHANGED db
          ELSE Abort
    /\ UNCHANGED <<settings, gatewayVars, callerVars, catVars, redditVars, envVars,
                   scoreVars,
                   now, decayVars, enrichVars>>

NextStage(source) ==
    CASE source = "google" -> "news"
      [] source = "news" -> "reddit"
      [] source = "reddit" -> "dedup"

\* one of the three try blocks of lines 59-81: the collector returns a list
\* of candidates, or its exception is caught; failures says whether the call
\* may return, raise, or both
Collect(source, results, failures) ==
    /\ d_pc = source
    /\ \E raised \in failures, r \in results :
          /\ d_all' = IF raised THEN d_all ELSE d_all \o r
          /\ d_outcomes' = Append(d_outcomes,
                                  [source |-> source, raised |-> raised,
                                   count |-> IF raised THEN 0 ELSE Len(r)])
    /\ d_pc' = NextStage(source)
    /\ UNCHANGED <<settings, gatewayVars, callerVars, catVars, redditVars, envVars,
                   scoreVars,
                   now, db, session, d_runs, d_i, d_processed, d_scored, d_log, d_result,
                   d_snapshot, decayVars, enrichVars>>

\* one iteration of the loop of _process_and_deduplicate_trends (lines 125-159),
\* or its end; scalar_one_or_none raises when several rows match
DedupStep ==
    /\ d_pc = "dedup"
    /\ IF d_i > Len(d_all)
       THEN /\ d_pc' = "score"
            /\ d_i' = 1
            /\ UNCHANGED <<db, session, d_all, d_processed, d_scored, d_log, d_outcomes,
                           d_result, d_snapshot>>
       ELSE LET trend_data == d_all[d_i]
                flushed == [session EXCEPT !.trends = Autoflush(session.trends)]
                matches == ExistingMatches(flushed, trend_data, now)
            IN IF Cardinality(matches) > 1
               THEN Abort
               ELSE /\ d_i' = d_i + 1
                    /\ UNCHANGED <<db, d_pc, d_all, d_scored, d_outcomes, d_result, d_snapshot>>
                    /\ IF matches = {}
                       THEN /\ session' = [flushed EXCEPT !.trends =
                                              Append(@, NewTrend(trend_data, now))]
                            /\ d_processed' = Append(d_processed, Len(session.trends) + 1)
                            /\ d_log' = Append(d_log, [outcome |-> "created",
                                                       row |-> Len(session.trends) + 1])
                       ELSE LET row == CHOOSE i \in matches : TRUE
                            IN /\ session' = [flushed EXCEPT !.trends[row] =
                                                 MergeInto(@, trend_data, now)]
                               /\ d_processed' = Append(d_processed, row)
                               /\ d_log' = Append(d_log, [outcome |-> "merged", row |-> row])
    /\ UNCHANGED <<settings, gatewayVars, callerVars, catVars, redditVars, envVars,
                   scoreVars,
                   now, d_runs, decayVars, enrichVars>>

\* lines 185-205 on one trend, given what analyze_trend_sustainability returned
Scored(trend, analysis) ==
    IF ~analysis.dict
    THEN [trend EXCEPT !.status = "archived"]
    ELSE LET sustainability == Get(analysis.score, 0)
             safe == CheckBrandSafety(trend)
             kept == Retains(sustainability, trend.score.v, safe)
         IN [trend EXCEPT !.sustainability_score = Float(sustainability),
                          !.is_brand_safe = IF safe THEN "true" ELSE "false",
                          !.is_analyzed = IF kept THEN TRUE ELSE @,
                          !.status = IF kept THEN @ ELSE "archived"]

\* one iteration of the loop of _score_and_filter_trends (lines 182-205), or
\* its end and the sort of lines 208-211
ScoreStep(aiScores) ==
    /\ d_pc = "score"
    /\ IF d_i > Len(d_processed)
       THEN /\ d_pc' = "campaigns"
            /\ d_i' = 1
            /\ d_scored' = SortByCombined(d_scored, session.trends)
            /\ UNCHANGED session
       ELSE LET row == d_processed[d_i]
                trend == session.trends[row]
            IN \E analysis \in {Analysis(Float(FallbackSustainabilityScore(trend))), NotADict}
                               \cup {Analysis(s) : s \in aiScores} :
                  LET scored == Scored(trend, analysis)
                  IN /\ session' = [session EXCEPT !.trends[row] = scored]
                     /\ d_scored' = IF analysis.dict
                                        /\ Retains(Get(analysis.score, 0), trend.score.v,
                                                   CheckBrandSafety(trend))
                                    THEN Append(d_scored, row) ELSE d_scored
                     /\ d_i' = d_i + 1
                     /\ UNCHANGED d_pc
    /\ UNCHANGED <<settings, gatewayVars, callerVars, catVars, redditVars, envVars,
                   scoreVars,
                   now, db, d_runs, d_all, d_processed, d_log, d_outcomes, d_result,
                   d_snapshot, decayVars, enrichVars>>

\* the Campaign rows of lines 239-262 for one trend: trend_id is trend.id,
\* which is None until the trend's INSERT has been flushed
Campaigns(row, trend, count) ==
    [i \in 1..count |-> [trend |-> row, trend_id |-> IF trend.flushed THEN "set" ELSE "none",
                         status |-> "draft", created_at |-> now]]

\* one iteration of the loop of _generate_campaign_angles (lines 234-265) over
\* scored_trends[:10], or its end
CampaignStep(ideaCounts) ==
    /\ d_pc = "campaigns"
    /\ IF d_i > Min(Len(d_scored), TopK)
       THEN /\ d_pc' = "commit"
            /\ UNCHANGED <<session, d_i>>
       ELSE \E count \in ideaCounts :
              /\ session' = [session EXCEPT !.campaigns =
                                @ \o Campaigns(d_scored[d_i], session.trends[d_scored[d_i]], count)]
              /\ d_i' = d_i + 1
              /\ UNCHANGED d_pc
    /\ UNCHANGED <<settings, gatewayVars, callerVars, catVars, redditVars, envVars,
                   scoreVars,
                   now, db, d_runs, d_all, d_processed, d_scored, d_log, d_outcomes,
                   d_result, d_snapshot, decayVars, enrichVars>>

\* db.commit() of line 92 and the summary of lines 94-100; the commit fails on
\* a storage error and on a campaign whose trend_id is NULL (campaign.py line 27)
Commit ==
    /\ d_pc = "commit"
    /\ \E storage_ok \in BoolSet :
          IF storage_ok /\ \A i \in 1..Len(session.campaigns) :
                              session.campaigns[i].trend_id = "set"
          THEN /\ db' = [session EXCEPT !.trends = Autoflush(session.trends)]
               /\ session' = db'
               /\ d_pc' = "done"
               /\ d_result' = [t |-> "summary",
                               total_collected |-> Len(d_all),
                               processed_trends |-> Len(d_processed),
                               scored_trends |-> Len(d_scored),
                               campaigns_generated |-> Len(session.campaigns) - Len(db.campaigns)]
               /\ LocalsDropped
          ELSE Abort
    /\ UNCHANGED <<settings, gatewayVars, callerVars, catVars, redditVars, envVars,
                   scoreVars,
                   now, d_runs, decayVars, enrichVars>>

-----------------------------------------------------------------------------
(* DataEnrichmentService.enrich_trend (enrichment_service.py lines 24-81)  *)

Facets ==
    {"related_news", "search_volume", "demographics", "geographic_distribution",
     "sentiment_analysis", "competition_analysis"}

\* what `trend.metadata` evaluates to: the declarative MetaData of the model
\* class (no instance attribute of that name), None or an empty dict, or a
\* dict with entries
MetadataAttrs == {"MetaData", "empty", "dict"}

\* lines 48-53: the facet's result, or its empty value if gather returned an exception
FacetStored(result) == IF result = "ok" THEN "result" ELSE "empty"

\* enrichment_data as _calculate_sustainability_score reads it: the values
\* the sub-queries return (lines 83-233), nothing for a failed facet
EnrichmentData(results) ==
    [EmptyFacets EXCEPT
        !.related_news = IF results["related_news"] = "ok" THEN 3 ELSE 0,
        !.volume_change_7d = IF results["search_volume"] = "ok" THEN Float(45) ELSE Missing,
        !.sentiment_score = IF results["sentiment_analysis"] = "ok" THEN Float(650) ELSE Missing,
        !.opportunity_score = IF results["competition_analysis"] = "ok" THEN Float(72) ELSE Missing]

\* no enrich_trend call in progress
EnrichIdle ==
    /\ e_pc = "idle"
    /\ e_metadata = "MetaData"
    /\ e_trend = NoScoredTrend
    /\ e_results = [f \in Facets |-> "pending"]
    /\ e_stored = [f \in Facets |-> "unset"]
    /\ e_outcome = "none"

\* enrich_trend is called and issues its six sub-queries (lines 34-45)
EnrichTrend(trends) ==
    /\ e_pc = "idle"
    /\ e_pc' = "gathering"
    /\ \E m \in MetadataAttrs, t \in trends :
          /\ e_metadata' = m
          /\ e_trend' = t
    /\ UNCHANGED <<settings, gatewayVars, callerVars, catVars, redditVars, envVars,
                   scoreVars,
                   now, db, session, dailyVars, decayVars, e_results, e_stored, e_outcome>>

\* one sub-query completes, with a result or with an exception that gather keeps
SubQueryCompletes ==
    /\ e_pc = "gathering"
    /\ \E f \in Facets, r \in {"ok", "raised"} :
          /\ e_results[f] = "pending"
          /\ e_results' = [e_results EXCEPT ![f] = r]
    /\ UNCHANGED <<settings, gatewayVars, callerVars, catVars, redditVars, envVars,
                   scoreVars,
                   now, db, session, dailyVars, decayVars, e_pc, e_metadata, e_trend,
                   e_stored, e_outcome>>

\* gather returns and the results are processed (lines 47-81); on the
\* model class's MetaData `trend.metadata.update` raises AttributeError,
\* which the handler of line 79 swallows
EnrichCompletes ==
    /\ e_pc = "gathering"
    /\ \A f \in Facets : e_results[f] # "pending"
    /\ e_pc' = "done"
    /\ e_outcome' = "returned"
    /\ IF e_metadata = "MetaData"
       THEN UNCHANGED <<e_stored, e_trend>>
       ELSE /\ e_stored' = [f \in Facets |-> FacetStored(e_results[f])]
            /\ e_trend' = [e_trend EXCEPT !.sustainability_score =
                  Float(CalculateSustainabilityScore(e_trend, EnrichmentData(e_results)).v)]
    /\ UNCHANGED <<settings, gatewayVars, callerVars, catVars, redditVars, envVars,
                   scoreVars,
                   now, db, session, dailyVars, decayVars, e_metadata, e_results>>

-----------------------------------------------------------------------------
(* The scoring and decay tasks (tasks/trend_scoring.py) and the clock.     *)
(* Both tasks open their session with `async with get_db_session()`; what  *)
(* that call evaluates to is the task's session factory.  get_db_session   *)
(* of core/database.py is a coroutine function, so its value is a          *)
(* coroutine, on which `async with` raises before a row is read; the       *)
(* model also covers a factory that yields a session.                      *)

SessionFactories == {"coroutine", "session"}

NoTaskRunning == d_pc \in {"idle", "done", "failed"} /\ e_pc \in {"idle", "done"}

\* the passage of time between tasks, in steps that take a trend past the
\* age of the decay query
AdvanceClock ==
    /\ NoTaskRunning
    /\ now + DecayAgeDays + 1 <= MaxDay
    /\ now' = now + DecayAgeDays + 1
    /\ UNCHANGED <<settings, gatewayVars, callerVars, catVars, redditVars, envVars,
                   scoreVars,
                   db, session, dailyVars, decayVars, enrichVars>>

\* decay_factor of line 379, in tenths
DecayFactor(age_days) == Max(1, 10 - age_days)

\* lines 378-384 on one trend
Decayed(trend, today) ==
    LET f == DecayFactor(today - trend.created_at)
    IN [trend EXCEPT
           !.score = Float((@.v * f) \div 10),
           !.sustainability_score = Float((OrDefault(@, 50 * Unit) * f) \div 10),
           !.pr_potential_score = Float((OrDefault(@, 50 * Unit) * f) \div 10)]

DecayIdle ==
    /\ t_passes = 0
    /\ t_decayed_at = 0 - 1

\* _run_decay_analysis (lines 363-398)
DecayPass ==
    /\ NoTaskRunning
    /\ db.trends # <<>>
    /\ t_passes < MaxPasses
    /\ \E factory \in SessionFactories :
          IF factory = "coroutine"
          THEN UNCHANGED <<db, session, decayVars>>
          ELSE /\ db' = [db EXCEPT !.trends =
                            [i \in 1..Len(db.trends) |->
                                IF db.trends[i].created_at < now - DecayAgeDays
                                THEN Decayed(db.trends[i], now)
                                ELSE db.trends[i]]]
               /\ session' = db'
               /\ t_passes' = t_passes + 1
               /\ t_decayed_at' = now
    /\ UNCHANGED <<settings, gatewayVars, callerVars, catVars, redditVars, envVars,
                   scoreVars,
                   now, dailyVars, enrichVars>>

\* lines 111-139 on one trend loaded by the task's query: enrich_trend leaves
\* it as it is (its `metadata` is the class's MetaData), then the four scores
AdvancedScores(trend, today) ==
    LET view == ScoredTrend(trend.title, trend.score, trend.sustainability_score,
                            trend.pr_potential_score, trend.viral_potential_score,
                            trend.brand_safety_score, EmptyFacets)
        pr == CalculatePRPotential(view)
        viral == CalculateViralityPotential(view)
        safety == CalculateBrandSafetyScore(view)
        overall == CalculateOverallScore(
                      [view EXCEPT !.pr_potential_score = Float(pr.v),
                                   !.viral_potential_score = Float(viral.v),
                                   !.brand_safety_score = Float(safety.v)])
    IN [trend EXCEPT !.pr_potential_score = Float(pr.v),
                     !.viral_potential_score = Float(viral.v),
                     !.brand_safety_score = Float(safety.v),
                     !.score = Float(overall.v),
                     !.updated_at = today]

\* the rows the query of lines 47-53 selects, in whole days: created within a
\* day and updated six hours before the query, as a row updated that day may be
ScoringQuery(trends, today) ==
    {i \in 1..Len(trends) : trends[i].created_at >= today - 1 /\ trends[i].updated_at <= today}

\* _run_advanced_scoring (lines 31-94), for trend_ids or for the default query
AdvancedScoring ==
    /\ NoTaskRunning
    /\ db.trends # <<>>
    /\ \E factory \in SessionFactories,
          selected \in {ScoringQuery(db.trends, now), 1..Len(db.trends)} :
          IF factory = "coroutine" \/ selected = {}
          THEN UNCHANGED <<db, session>>
          ELSE /\ db' = [db EXCEPT !.trends =
                            [i \in 1..Len(db.trends) |->
                                IF i \in selected THEN AdvancedScores(db.trends[i], now)
                                ELSE db.trends[i]]]
               /\ session' = db'
    /\ UNCHANGED <<settings, gatewayVars, callerVars, catVars, redditVars, envVars,
                   scoreVars,
                   now, dailyVars, decayVars, enrichVars>>

\* the tables are empty and the clock is at day 0
StoreEmpty ==
    /\ now = 0
    /\ db = EmptyStore
    /\ session = EmptyStore

\* no score function has been called on any input
NoScoreCall ==
    /\ s_in = [kind |-> "none", trend |-> NoScoredTrend, post |-> NoSubmission,
               algorithm |-> "hot"]
    /\ ScoresIdle

\* every provider answers its requests
AllResponsive == h_silent = {}

\* the daily runs that may execute at once, and the state before either starts
Runs == {1, 2}
NoCandidate == [title |-> <<>>, score |-> 0, volume |-> 0, platforms |-> {},
                keywords |-> {}, category |-> "none"]
NoPlan == [t |-> "none", row |-> 0]
RaceIdle ==
    /\ k_pc = [r \in Runs |-> "idle"]
    /\ k_cand = [r \in Runs |-> NoCandidate]
    /\ k_plan = [r \in Runs |-> NoPlan]
    /\ k_overlap = FALSE

\* the tasks of the store are at rest
StoreTasksIdle ==
    /\ NoScoreCall
    /\ StoreEmpty
    /\ DailyIdle
    /\ DecayIdle
    /\ EnrichIdle

\* every task outside the specification at hand is at rest
TasksIdle ==
    /\ StoreTasksIdle
    /\ AllResponsive
    /\ RaceIdle

-----------------------------------------------------------------------------
(* Specification of the gateway alone: direct calls of generate_with_fallback *)

TextReplies ==
    {[NoReply EXCEPT !.json = j] : j \in {"invalid", "array", "object"}}

\* a caller outside the model awaits generate_with_fallback
GenerateWithFallback ==
    /\ GatewayFree
    /\ GatewayEnter("direct")
    /\ UNCHANGED <<settings, callerVars, catVars, redditVars, taskVars>>

DirectPrimary ==
    /\ g_caller = "direct"
    /\ PrimaryCompletes(TextReplies)
    /\ UNCHANGED <<settings, callerVars, catVars, redditVars, taskVars>>

DirectFallback ==
    /\ g_caller = "direct"
    /\ FallbackCompletes(TextReplies)
    /\ UNCHANGED <<settings, callerVars, catVars, redditVars, taskVars>>

vars == <<settings, gatewayVars, callerVars, catVars, redditVars, taskVars>>

InitGateway ==
    /\ settings \in ProviderSettings
    /\ GatewayInit(settings)
    /\ CallersIdle
    /\ CategorizerIdle
    /\ RedditInit(settings)
    /\ TasksIdle

NextGateway == GenerateWithFallback \/ DirectPrimary \/ DirectFallback

SpecGateway == InitGateway /\ [][NextGateway]_vars

\* the providers configured by the settings, in registration order
ConfiguredInOrder == SelectSeq(ProviderNames, LAMBDA n : settings[KeyOf(n)])
ConfiguredSet == {ConfiguredInOrder[i] : i \in 1..Len(ConfiguredInOrder)}

\* the order the claim states: the default provider if configured, then the rest
ClaimedChain ==
    (IF settings.DEFAULT_AI_PROVIDER \in ConfiguredSet
     THEN <<settings.DEFAULT_AI_PROVIDER>> ELSE <<>>)
    \o SelectSeq(ConfiguredInOrder, LAMBDA n : n # settings.DEFAULT_AI_PROVIDER)

\* C1: the providers are attempted in the order default-first-then-registration
\* order; a success ends the call: it is the last attempt, every attempt before
\* it failed, and the call returns that provider's reply.
C1_FallbackOrder ==
    /\ Len(g_attempts) <= Len(ClaimedChain)
    /\ \A i \in 1..Len(g_attempts) : g_attempts[i].provider = ClaimedChain[i]
    /\ \A i \in 1..Len(g_attempts) :
          g_attempts[i].ok => (i = Len(g_attempts) /\ g_pc = "returned")
    /\ g_pc = "returned" =>
          /\ Len(g_attempts) >= 1
          /\ g_attempts[Len(g_attempts)].ok
          /\ g_result = g_attempts[Len(g_attempts)].reply
          /\ g_result # NoReply

\* two providers failed and the third succeeded
C1_Witness ==
    /\ g_pc = "returned"
    /\ Len(g_attempts) = 3
    /\ ~g_attempts[1].ok /\ ~g_attempts[2].ok /\ g_attempts[3].ok

FailedProviders == {g_attempts[i].provider : i \in {j \in 1..Len(g_attempts) : ~g_attempts[j].ok}}

\* C2: a call ends in the all-providers-failed error exactly when every
\* configured provider has failed (trivially so when none is configured); then
\* each configured provider was attempted exactly once, and no provider is ever
\* attempted twice in one call.
C2_ExhaustedIffAllFailed ==
    /\ (g_pc = "raised") <=> (g_pc # "idle" /\ ConfiguredSet \subseteq FailedProviders)
    /\ \A i, j \in 1..Len(g_attempts) :
          i # j => g_attempts[i].provider # g_attempts[j].provider
    /\ g_pc = "raised" =>
          /\ Len(g_attempts) = Len(ConfiguredInOrder)
          /\ \A i \in 1..Len(g_attempts) : ~g_attempts[i].ok

\* two providers configured, the default provider name is not one of them, both failed
C2_Witness ==
    /\ g_pc = "raised"
    /\ Len(g_attempts) = 2
    /\ settings.DEFAULT_AI_PROVIDER \notin ConfiguredSet

-----------------------------------------------------------------------------
(* Specification of the gateway with its two callers in AIService *)

InitCallers ==
    /\ settings \in ProviderSettings
    /\ GatewayInit(settings)
    /\ CallersIdle
    /\ CategorizerIdle
    /\ RedditInit(settings)
    /\ TasksIdle

NextCallers ==
    \/ AnalyzeTrendSustainability
    \/ AnalyzeResumes
    \/ GenerateCampaignIdeas
    \/ IdeasResume
    \/ CallerPrimary
    \/ CallerFallback

SpecCallers == InitCallers /\ [][NextCallers]_vars

\* the gateway is of no use to the operation in progress: no provider is
\* configured, or the call raised, or the reply is not valid JSON
AIUnavailable ==
    \/ providers = <<>>
    \/ g_calls = 1 /\ g_pc = "raised"
    \/ g_calls = 1 /\ g_pc = "returned" /\ g_result.json = "invalid"

\* C3: neither caller ever raises; when the gateway is unavailable,
\* analyze_trend_sustainability returns the heuristic analysis and
\* generate_campaign_ideas returns the template ideas, a non-empty list.
C3_CallersDegrade ==
    a_pc = "done" =>
        /\ ~a_result.raised
        /\ (AIUnavailable /\ a_op = "sustainability") =>
              a_result.method = "fallback_heuristic"
        /\ (AIUnavailable /\ a_op = "ideas") =>
              (a_result.method = "template-based" /\ a_result.count > 0)
        /\ a_op = "ideas" => a_result.count > 0

\* every configured provider failed and the caller returned its fallback
C3_Witness ==
    /\ a_pc = "done"
    /\ g_calls = 1 /\ g_pc = "raised" /\ Len(g_attempts) = 2
    /\ a_result \in {FallbackSustainabilityAnalysis, TemplateCampaignIdeas}

-----------------------------------------------------------------------------
(* Specifications of categorize_content *)

\* zero, one or two providers configured; a prompt template that formats or not
CategorizerSettings ==
    {[DefaultSettings EXCEPT !.OPENROUTER_API_KEY = k1, !.OPENAI_API_KEY = k2,
                             !.AI_CATEGORIZATION_USER_PROMPT_TEMPLATE = t] :
        k1 \in BoolSet, k2 \in BoolSet, t \in {"formats", "malformed"}}

InitCategorizer ==
    /\ settings \in CategorizerSettings
    /\ GatewayInit(settings)
    /\ CallersIdle
    /\ CategorizerIdle
    /\ RedditInit(settings)
    /\ TasksIdle

\* SpecBlocking: every subreddit name and flair up to MaxStrLen, with over_18;
\* the other metadata at their defaults and two sample replies
BlockingArgs ==
    [subreddit : SeqsUpTo(Alphabet, MaxStrLen),
     reddit_metadata : {md \in RedditMetadata(MaxStrLen) :
                            ~md.locked /\ md.gilded = 0 /\ md.awards_received = 0}]

BlockingReplies ==
    {[NoReply EXCEPT !.json = "invalid"],
     [NoReply EXCEPT !.json = "object", !.safety_level = "SAFE", !.confidence = Num(9)]}

BlockingCall == CategorizeContent(BlockingArgs)
BlockingPrimary == CategorizerPrimary(BlockingReplies)
BlockingFallback == CategorizerFallback(BlockingReplies)

NextBlocking == BlockingCall \/ CategorizeResumes \/ BlockingPrimary \/ BlockingFallback

SpecBlocking == InitCategorizer /\ [][NextBlocking]_vars

\* SpecCategorizer: every metadata flag, every reply; a blocked and an unblocked
\* subreddit, no flair or an empty one
CategorizerArgs ==
    [subreddit : {<<"A">>, <<"b">>}, reddit_metadata : RedditMetadata(0)]

CategorizerCall == CategorizeContent(CategorizerArgs)
CategorizerPrimaryStep == CategorizerPrimary(CategorizerReplies)
CategorizerFallbackStep == CategorizerFallback(CategorizerReplies)

NextCategorizer ==
    CategorizerCall \/ CategorizeResumes \/ CategorizerPrimaryStep \/ CategorizerFallbackStep

SpecCategorizer == InitCategorizer /\ [][NextCategorizer]_vars

\* the arguments mark adult content, a blocked subreddit or a blocked flair
MarksImmediateBlock(args) ==
    \/ args.reddit_metadata.over_18
    \/ \E b \in BLOCKED_SUBREDDITS : Lower(args.subreddit) = Lower(b)
    \/ /\ args.reddit_metadata.link_flair_text.t = "str"
       /\ \E b \in BLOCKED_FLAIRS :
            Contains(Lower(b), Lower(args.reddit_metadata.link_flair_text.v))

\* C4: a call whose arguments mark adult content, a blocked subreddit
\* (case-insensitive) or a flair containing a blocked flair (case-insensitive)
\* returns at once with level blocked, confidence 1.0 and is_brand_safe false,
\* without calling the gateway, whatever the provider configuration is.
C4_ImmediateBlock ==
    (c_pc # "idle" /\ MarksImmediateBlock(c_args)) =>
        /\ c_pc = "done"
        /\ c_verdict.safety_level = "blocked"
        /\ c_verdict.confidence = 10
        /\ ~c_verdict.is_brand_safe
        /\ ~c_verdict.raised
        /\ g_calls = 0

\* blocked by the flair alone, through lower-casing and a proper substring,
\* with providers configured
C4_Witness ==
    /\ c_pc = "done"
    /\ ~c_args.reddit_metadata.over_18
    /\ c_args.subreddit = <<"b">>
    /\ c_args.reddit_metadata.link_flair_text = Str(<<"b", "A">>)
    /\ Len(providers) = 2
    /\ c_verdict.safety_level = "blocked"

\* the gateway call of the categorization in progress failed, or its reply is no JSON
AICallFailed ==
    /\ g_calls = 1
    /\ g_caller = "categorize"
    /\ \/ g_pc = "raised"
       \/ g_pc = "returned" /\ g_result.json = "invalid"

\* C6: when the gateway call fails or its reply is not parseable JSON, the call
\* returns level caution with confidence 0.3 and is_brand_safe false, whatever
\* the awarded and locked signals are.
C6_AIFailureVerdict ==
    (c_pc = "done" /\ AICallFailed) =>
        /\ ~c_verdict.raised
        /\ c_verdict.safety_level = "caution"
        /\ c_verdict.confidence = 3
        /\ ~c_verdict.is_brand_safe

\* every provider failed on a locked, awarded post
C6_Witness ==
    /\ c_pc = "done"
    /\ g_calls = 1 /\ g_pc = "raised" /\ Len(g_attempts) = 2
    /\ c_signals.locked /\ c_signals.awarded > 0

\* C7: categorize_content always ends in a returned verdict of a defined level;
\* when the exception of a prompt template that does not format reaches the
\* top-level handler the verdict is caution, confidence 0.5, is_brand_safe false.
C7_NeverRaises ==
    c_pc = "done" =>
        /\ ~c_verdict.raised
        /\ c_verdict.safety_level \in ContentSafetyLevel
        /\ (settings.AI_CATEGORIZATION_USER_PROMPT_TEMPLATE # "formats"
            /\ ~MarksImmediateBlock(c_args)) =>
              /\ c_verdict.safety_level = "caution"
              /\ c_verdict.confidence = 5
              /\ ~c_verdict.is_brand_safe

\* the top-level handler produced the verdict
C7_Witness ==
    /\ c_pc = "done"
    /\ settings.AI_CATEGORIZATION_USER_PROMPT_TEMPLATE = "malformed"
    /\ c_verdict.primary_category = "analysis_failed"

\* C8: on every path is_brand_safe is true exactly when the level is safe or
\* caution and the confidence is at least 0.7.
C8_BrandSafeIff ==
    c_pc = "done" =>
        (c_verdict.is_brand_safe <=>
            (c_verdict.safety_level \in {"safe", "caution"} /\ c_verdict.confidence >= 7))

\* a safe reply on a locked post, downgraded to caution and still brand safe
C8_Witness ==
    /\ c_pc = "done"
    /\ c_signals.locked
    /\ g_result.safety_level = "SAFE"
    /\ c_verdict.safety_level = "caution"
    /\ c_verdict.is_brand_safe

\* C9: the confidence of every returned verdict lies in [0, 1].
C9_ConfidenceInUnitInterval ==
    c_pc = "done" => (c_verdict.confidence >= 0 /\ c_verdict.confidence <= 10)

-----------------------------------------------------------------------------
(* Specification of the Reddit collector *)

\* every choice of the categorization and filter flags; no provider or one
CollectorSettings ==
    {[DefaultSettings EXCEPT !.OPENROUTER_API_KEY = k, !.REDDIT_CLIENT_ID = r,
                             !.AI_CATEGORIZATION_ENABLED = e,
                             !.CONTENT_FILTER_ENABLED = f,
                             !.FALLBACK_TO_KEYWORD_FILTER = b] :
        k \in BoolSet, r \in BoolSet, e \in BoolSet, f \in BoolSet, b \in BoolSet}

CollectorReplies ==
    {[NoReply EXCEPT !.json = "invalid"]}
        \cup {[NoReply EXCEPT !.json = "object", !.safety_level = l, !.confidence = Num(c)] :
                l \in {"SAFE", "CAUTION", "CONTROVERSIAL", "NSFW"}, c \in {6, 9}}

CollectorPrimary == CategorizerPrimary(CollectorReplies)

InitReddit ==
    /\ settings \in CollectorSettings
    /\ GatewayInit(settings)
    /\ CallersIdle
    /\ CategorizerIdle
    /\ RedditInit(settings)
    /\ TasksIdle

NextReddit ==
    \/ GetTrendingTopics
    \/ NextPost
    \/ CategorizationReturns
    \/ EndOfListing
    \/ CategorizeResumes
    \/ CollectorPrimary

SpecReddit == InitReddit /\ [][NextReddit]_vars

\* C5: no post flagged over_18 is in the list get_trending_topics returns.
C5_NoAdultContentReturned ==
    r_pc = "returned" => \A i \in 1..Len(r_trends) : ~r_trends[i].over_18

-----------------------------------------------------------------------------
(* Specification of the inclusion decision: the collector resumes with a verdict *)

\* every level at every confidence, with is_brand_safe as _combine_signals sets it
AllVerdicts ==
    {Verdict(l, c, "ai", l \in {"safe", "caution"} /\ c >= 7) :
        l \in ContentSafetyLevel, c \in (0 - MaxNegConf)..MaxConf}

InclusionSettings ==
    {[DefaultSettings EXCEPT !.OPENROUTER_API_KEY = TRUE, !.REDDIT_CLIENT_ID = TRUE,
                             !.ALLOW_CAUTION_CONTENT = a,
                             !.AI_CATEGORIZATION_MIN_CONFIDENCE = m] :
        a \in BoolSet, m \in 0..10}

\* get_trending_topics awaiting categorize_content for its first post, which
\* has just returned c_verdict
InitInclusion ==
    /\ settings \in InclusionSettings
    /\ GatewayInit(settings)
    /\ CallersIdle
    /\ c_pc = "done"
    /\ c_args = [NoArgs EXCEPT !.subreddit = SubredditName]
    /\ c_signals = NoSignals
    /\ c_verdict \in AllVerdicts
    /\ ai_categorizer = settings.AI_CATEGORIZATION_ENABLED
    /\ reddit = settings.REDDIT_CLIENT_ID
    /\ r_pc = "categorizing"
    /\ r_count = MaxPosts
    /\ r_post \in {p \in Posts : ~p.over_18 /\ p.trending_score = 8 /\ p.subreddit = <<"b">>}
    /\ r_category = NoVerdict
    /\ r_included = "none"
    /\ r_trends = <<>>
    /\ TasksIdle

NextInclusion == CategorizationReturns \/ EndOfListing

SpecInclusion == InitInclusion /\ [][NextInclusion]_vars

\* the inclusion table of the claim
InclusionTable(level, confidence) ==
    CASE level \in {"blocked", "violent", "nsfw", "political"} -> FALSE
      [] level = "controversial" -> confidence < 8
      [] level = "caution" ->
            settings.ALLOW_CAUTION_CONTENT
            /\ confidence >= settings.AI_CATEGORIZATION_MIN_CONFIDENCE
      [] level = "safe" -> TRUE

\* C10: the decision taken on a verdict equals the table: blocked, violent, nsfw
\* and political excluded; controversial included exactly below 0.8; caution
\* included exactly when ALLOW_CAUTION_CONTENT and confidence >=
\* AI_CATEGORIZATION_MIN_CONFIDENCE; safe included.
C10_InclusionTable ==
    (r_included # "none" /\ r_category # NoVerdict) =>
        /\ (r_included = "yes") <=>
              InclusionTable(r_category.safety_level, r_category.confidence)
        /\ (r_included = "yes") <=>
              (Len(r_trends) = 1 /\ r_trends[1].ai_categorization = r_category)

\* a controversial verdict at confidence 0.7 was let through
C10_Witness ==
    /\ r_included = "yes"
    /\ r_category.safety_level = "controversial"
    /\ r_category.confidence = 7
    /\ Len(r_trends) = 1

-----------------------------------------------------------------------------
(* Specification of the score functions: one call on inputs that include   *)
(* negative, huge and missing sub-signals                                  *)

FacetInputs ==
    {[EmptyFacets EXCEPT !.related_news = n, !.volume_change_7d = v7,
                         !.volume_change_24h = v24, !.positive = p, !.negative = ng,
                         !.sentiment_score = ss, !.excitement = ex, !.risk_factors = rf,
                         !.top_countries = tc, !.age_groups = ag,
                         !.opportunity_score = op] :
        n \in {0, 11}, v7 \in {Missing, Float(60)}, v24 \in {Missing, Float(150)},
        p \in {Missing, Float(0 - 100), Float(900)}, ng \in {Missing, Float(40)},
        ss \in {Missing, Float(650)}, ex \in BoolSet,
        rf \in {<<>>, <<"illegal activity", "illegal activity", "political sensitivity">>},
        tc \in {0, 6}, ag \in {0, 5},
        op \in {Missing, Float(0 - 500), Float(5000)}}

BadFacets == [EmptyFacets EXCEPT !.bad = TRUE]

\* trends whose enrichment facets vary
FacetTrends ==
    {ScoredTrend(<<"A">>, Float(800), NoneFloat, NoneFloat, NoneFloat, NoneFloat, f) :
        f \in FacetInputs}
    \cup {ScoredTrend(t, sc, su, NoneFloat, NoneFloat, NoneFloat, f) :
            t \in {<<"b">>, <<"a", "b">>},
            sc \in {NoneFloat, Float(0 - 3 * Unit), Float(800), Float(400 * Unit)},
            su \in {NoneFloat, Float(0 - 2 * Unit), Float(600), Float(250 * Unit)},
            f \in {EmptyFacets, BadFacets}}

ComponentValues ==
    {NoneFloat, Float(0), Float(0 - 20 * Unit), Float(40 * Unit), Float(100 * Unit),
     Float(300 * Unit)}

\* trends whose score components vary
ComponentTrends ==
    {ScoredTrend(<<"b">>, b, su, pr, vi, sa, EmptyFacets) :
        b \in ComponentValues, su \in ComponentValues, pr \in ComponentValues,
        vi \in ComponentValues, sa \in ComponentValues}

Submissions ==
    [score : {NoneFloat, Float(0 - 100), Float(0), Float(5000), Float(2000000)},
     num_comments : {0 - 5, 0, 50000},
     upvote_ratio : {0 - 2 * Unit, 0, 950, 5 * Unit},
     age_hours : {0 - 48, 0 - 24, 0, 48, 1000},
     total_awards_received : {0 - 50, 0, 3, 500}]

ScoreInputs ==
    {[kind |-> "facets", trend |-> t, post |-> NoSubmission, algorithm |-> "hot"] :
        t \in FacetTrends}
    \cup {[kind |-> "components", trend |-> t, post |-> NoSubmission, algorithm |-> "hot"] :
            t \in ComponentTrends}
    \cup {[kind |-> "post", trend |-> NoScoredTrend, post |-> p, algorithm |-> a] :
            p \in Submissions, a \in Algorithms}

InitScores ==
    /\ settings = DefaultSettings
    /\ GatewayInit(settings)
    /\ CallersIdle
    /\ CategorizerIdle
    /\ RedditInit(settings)
    /\ s_in \in ScoreInputs
    /\ ScoresIdle
    /\ StoreEmpty
    /\ DailyIdle
    /\ DecayIdle
    /\ EnrichIdle
    /\ AllResponsive
    /\ RaceIdle

NextScores ==
    \/ ApplyPRPotential
    \/ ApplyViralityPotential
    \/ ApplyBrandSafetyScore
    \/ ApplySustainabilityScore
    \/ ApplyOverallScore
    \/ ApplyTrendingScore

SpecScores == InitScores /\ [][NextScores]_vars

\* C13: every value a score function returns is inside its documented
\* interval: [0, 100] for the five trend scores, [0.1, 1.0] for the Reddit
\* trending score.
C13_ScoresWithinRange ==
    s_out.t = "num" =>
        IF s_fn = "trending"
        THEN Unit \div 10 <= s_out.v /\ s_out.v <= Unit
        ELSE 0 <= s_out.v /\ s_out.v <= 100 * Unit

\* the weighted sum of the claim, from the component values as they are
WeightedOverall(trend) ==
    LET sum == (25 * trend.score.v + 25 * trend.sustainability_score.v
                + 20 * trend.pr_potential_score.v + 15 * trend.viral_potential_score.v
                + 15 * trend.brand_safety_score.v) \div 100
        penalised == IF trend.brand_safety_score.v < 50 * Unit THEN (sum * 8) \div 10 ELSE sum
    IN Min(100 * Unit, Max(0, penalised))

\* C15: for a trend whose five components are all set, the overall score is
\* 0.25 base + 0.25 sustainability + 0.20 PR + 0.15 viral + 0.15 brand safety
\* of those values, times 0.8 when brand safety is below 50, clamped to [0, 100].
C15_OverallIsWeightedSum ==
    (/\ s_fn = "overall"
     /\ \A c \in {s_in.trend.score, s_in.trend.sustainability_score,
                  s_in.trend.pr_potential_score, s_in.trend.viral_potential_score,
                  s_in.trend.brand_safety_score} : c.t = "num")
        => s_out = Returned(WeightedOverall(s_in.trend))

-----------------------------------------------------------------------------
(* Specification of the daily run                                          *)

\* a trend dictionary as the collectors build it (google_trends.py lines
\* 35-49, news_api.py lines 40-55, reddit_service.py lines 121-151)
Candidate(title, score, volume, platform, category) ==
    [title |-> title, score |-> score, volume |-> volume, platforms |-> {platform},
     keywords |-> {Lower(title)}, category |-> category]

\* a headline that ends in the escape character of LIKE
EscapeTitle == <<"a", "\\">>

\* titles: one contained in the other, and one with the escape character
DailyTitles == {<<"a">>, <<"A", "b">>, EscapeTitle}

GoogleResults == {<<>>} \cup {<<Candidate(t, Unit, 2, "google", "general")>> : t \in DailyTitles}
\* a headline that consists of a LIKE wildcard character
WildcardTitle == <<"_">>

NewsResults ==
    {<<>>} \cup {<<Candidate(t, 900, 1, "news", "news")>> : t \in DailyTitles \cup {WildcardTitle}}
RedditResults ==
    {<<>>} \cup {<<Candidate(t, s, 3, "reddit", "b")>> : t \in DailyTitles, s \in {100, 250}}

\* 'score' values of an AI analysis: between the floors of the code and of
\* the settings, and far outside the unit interval
AIScores == {Float(600), Float(250 * Unit)}

\* one run a behaviour
DailyRunStarts == RunStarts(1)
CollectGoogle == Collect("google", GoogleResults, BoolSet)
CollectNews == Collect("news", NewsResults, BoolSet)
CollectReddit == Collect("reddit", RedditResults, BoolSet)
ScoreTrend == ScoreStep(AIScores)
GenerateCampaigns == CampaignStep({1, 3})

InitDaily ==
    /\ settings = DefaultSettings
    /\ GatewayInit(settings)
    /\ CallersIdle
    /\ CategorizerIdle
    /\ RedditInit(settings)
    /\ TasksIdle

NextDaily ==
    \/ DailyRunStarts
    \/ CollectGoogle
    \/ CollectNews
    \/ CollectReddit
    \/ DedupStep
    \/ ScoreTrend
    \/ GenerateCampaigns
    \/ Commit

SpecDaily == InitDaily /\ [][NextDaily]_vars

\* C11: in _process_and_deduplicate_trends, a candidate whose title is
\* identical to that of an earlier candidate of the recency window merges
\* into the trend the earlier one was created as or merged into: the query
\* finds that trend and no other outcome (a second trend, an exception) occurs.
C11_IdenticalTitlesMerge ==
    [][(d_pc = "dedup" /\ d_i <= Len(d_all))
       => \A i \in 1..(d_i - 1) :
             d_all[i].title = d_all[d_i].title
             => /\ d_pc' = "dedup"
                /\ d_log'[d_i].outcome = "merged"
                /\ d_log'[d_i].row = d_log[i].row]_vars

\* the rows the run at hand has scored: _score_and_filter_trends has returned
ScoringDone == d_pc \in {"campaigns", "commit"}

\* the interval the components of the daily run are kept on, [0, 1], and the
\* one the components of advanced scoring are kept on, [0, 100]
OnUnitScale(x) == x.t = "num" => (0 <= x.v /\ x.v <= Unit)
OnPercentScale(x) == x.t = "num" => (0 <= x.v /\ x.v <= 100 * Unit)

ConfiguredRetains(trend) ==
    /\ trend.sustainability_score.v >= settings.MIN_SUSTAINABILITY_SCORE
    /\ trend.score.v >= settings.MIN_TREND_SCORE
    /\ trend.is_brand_safe = "true"

InScored(row) == \E k \in 1..Len(d_scored) : d_scored[k] = row

\* C17: after _score_and_filter_trends every input trend is either retained
\* (returned, analyzed, still active) or archived, and it is retained if and
\* only if its sustainability score and its base score reach the configured
\* floors and it is brand safe.
C17_RetainedIffAboveConfiguredFloors ==
    ScoringDone =>
        \A k \in 1..Len(d_processed) :
            LET row == d_processed[k]
                trend == session.trends[row]
            IN /\ InScored(row) <=> ConfiguredRetains(trend)
               /\ IF InScored(row)
                  THEN trend.is_analyzed /\ trend.status = "active"
                  ELSE trend.status = "archived"

RECURSIVE CollectedCount(_)
\* the number of candidates the succeeding collectors returned
CollectedCount(outcomes) ==
    IF outcomes = <<>> THEN 0
    ELSE Head(outcomes).count + CollectedCount(Tail(outcomes))

\* C19: no failure of a collector aborts the daily run: a run is only left
\* with an exception after the three collections, every candidate of a
\* succeeding collector reaches deduplication, and total_collected is their
\* number.
C19_CollectorFailureIsolated ==
    [][/\ d_pc' = "failed" => d_pc \in {"dedup", "score", "campaigns", "commit", "failed"}
       /\ d_pc' = "dedup" => Len(d_all') = CollectedCount(d_outcomes')
       /\ (d_pc = "commit" /\ d_pc' = "done")
          => d_result'.total_collected = CollectedCount(d_outcomes)]_vars


\* the stored rows whose title contains the candidate's title fragment, case
\* ignored, and that are active and inside the recency window
ContainingRows(store, trend_data, today) ==
    {i \in 1..Len(store.trends) :
        /\ Contains(Lower(TitleFragment(trend_data.title)), Lower(store.trends[i].title))
        /\ store.trends[i].status = "active"
        /\ store.trends[i].created_at >= today - RecencyWindowDays}

\* a step of the deduplication loop that handles a candidate and does not raise
DedupHandles == d_pc = "dedup" /\ d_i <= Len(d_all) /\ d_pc' = "dedup"

\* C22: a candidate the deduplication loop handles is merged into a stored
\* trend if and only if some active trend created within the recency window
\* has a title that contains the candidate's title fragment (case ignored);
\* otherwise a new trend is created from it with first_seen_at = now.
C22_MergesIffTitleContains ==
    [][DedupHandles
       => LET containing == ContainingRows(session, d_all[d_i], now)
          IN IF containing # {}
             THEN /\ Len(session'.trends) = Len(session.trends)
                  /\ d_log'[d_i].outcome = "merged"
                  /\ d_log'[d_i].row \in containing
             ELSE /\ Len(session'.trends) = Len(session.trends) + 1
                  /\ d_log'[d_i].outcome = "created"
                  /\ session'.trends[Len(session'.trends)].title = d_all[d_i].title
                  /\ session'.trends[Len(session'.trends)].first_seen_at = now]_vars

\* C23: when several active trends of the recency window match the
\* candidate's title fragment, the candidate is merged into one of them, no
\* exception is raised and the loop goes on to the next candidate.
C23_FirstMatchWins ==
    [][(d_pc = "dedup" /\ d_i <= Len(d_all)
           /\ Cardinality(ExistingMatches(session, d_all[d_i], now)) > 1)
       => /\ d_pc' = "dedup"
          /\ d_i' = d_i + 1
          /\ d_log'[d_i].outcome = "merged"
          /\ d_log'[d_i].row \in ExistingMatches(session, d_all[d_i], now)]_vars

NoRepeats(seq) == \A i, j \in 1..Len(seq) : seq[i] = seq[j] => i = j

\* C28: within one run no trend is listed twice in processed_trends, and none
\* is listed twice in the scored trends handed to campaign generation, also
\* when several candidates of the run merged into it.
C28_EachTrendOncePerRun == NoRepeats(d_processed) /\ NoRepeats(d_scored)

\* C24: with a single run at a time, no two active trends with identical
\* titles are stored.
C24_SingleRunNeverDuplicates ==
    \A i, j \in 1..Len(db.trends) :
        (/\ db.trends[i].status = "active"
         /\ db.trends[j].status = "active"
         /\ db.trends[i].title = db.trends[j].title)
        => i = j

-----------------------------------------------------------------------------
(* Specification of the pipeline: daily runs, the decay and scoring tasks  *)
(* and the clock, over one title that every source may report              *)

PipelineTitle == <<"a">>

PipelineGoogle == {<<Candidate(PipelineTitle, Unit, 2, "google", "general")>>}
PipelineNews == {<<>>, <<Candidate(PipelineTitle, 900, 1, "news", "news")>>}
PipelineReddit == {<<Candidate(PipelineTitle, 250, 3, "reddit", "b")>>}

PipelineRunStarts == RunStarts(MaxRuns)
PipelineCollectGoogle == Collect("google", PipelineGoogle, {FALSE})
PipelineCollectNews == Collect("news", PipelineNews, {FALSE})
PipelineCollectReddit == Collect("reddit", PipelineReddit, {TRUE})
PipelineScoreTrend == ScoreStep({})
PipelineGenerateCampaigns == CampaignStep({1})

InitPipeline ==
    /\ settings = DefaultSettings
    /\ GatewayInit(settings)
    /\ CallersIdle
    /\ CategorizerIdle
    /\ RedditInit(settings)
    /\ TasksIdle

NextPipeline ==
    \/ PipelineRunStarts
    \/ PipelineCollectGoogle
    \/ PipelineCollectNews
    \/ PipelineCollectReddit
    \/ DedupStep
    \/ PipelineScoreTrend
    \/ PipelineGenerateCampaigns
    \/ Commit
    \/ AdvanceClock
    \/ DecayPass
    \/ AdvancedScoring

SpecPipeline == InitPipeline /\ [][NextPipeline]_vars

\* the platforms of every row of store before are among those of the same row after
PlatformsKept(before, after) ==
    \A i \in 1..Len(before.trends) :
        /\ i <= Len(after.trends)
        /\ before.trends[i].platforms \subseteq after.trends[i].platforms

\* C12: over every pipeline operation (dedup merge, scoring, archival,
\* advanced scoring, decay) the platforms of a trend after the operation are a
\* superset of its platforms before it, in the table and in the session of a
\* run that is not rolled back.
C12_PlatformsNeverShrink ==
    [][/\ PlatformsKept(db, db')
       /\ d_pc' # "failed" => PlatformsKept(session, session')]_vars

\* a trend that two sources reported was merged, committed and decayed
C12_Witness ==
    /\ t_passes > 0
    /\ \E i \in 1..Len(db.trends) :
          /\ db.trends[i].platforms = {"google", "news"}
          /\ db.trends[i].score.v < Unit

\* the three components a decay pass multiplies
DecayedComponents(trend) ==
    <<trend.score, trend.sustainability_score, trend.pr_potential_score>>

RunInProgress == d_pc \in {"google", "news", "reddit", "dedup", "score", "campaigns", "commit"}

\* C20: a daily run persists its state atomically: while it is in progress
\* the table changes only at the single final commit, which persists every
\* creation, mutation and campaign of the session together; a run left with
\* an exception is rolled back and persists nothing.
C20_AtomicCommit ==
    [][/\ (RunInProgress /\ db' # db)
          => /\ d_pc = "commit" /\ d_pc' = "done"
             /\ db' = [session EXCEPT !.trends = Autoflush(session.trends)]
       /\ d_pc' = "failed" /\ d_pc # "failed" => db' = db /\ session' = db]_vars

\* a run has committed a trend together with the campaigns generated for it
C20_Witness ==
    /\ d_pc = "done"
    /\ d_result.t = "summary"
    /\ d_result.campaigns_generated > 0
    /\ db.trends # <<>>
    /\ Len(db.campaigns) = d_result.campaigns_generated

-----------------------------------------------------------------------------
(* Specification of enrich_trend                                           *)

\* the trends enrich_trend is called on: one with a base score, one without
EnrichTrends ==
    {ScoredTrend(<<"a">>, s, Float(400), NoneFloat, NoneFloat, NoneFloat, EmptyFacets) :
        s \in {Float(500), NoneFloat}}

EnrichTrendCalled == EnrichTrend(EnrichTrends)

InitEnrich ==
    /\ settings = DefaultSettings
    /\ GatewayInit(settings)
    /\ CallersIdle
    /\ CategorizerIdle
    /\ RedditInit(settings)
    /\ TasksIdle

\* lines 114-124 of _calculate_advanced_scores on the trend enrich_trend
\* returned: the three functions read trend.trend_metadata (lines 155, 206,
\* 266), the mapped column, which enrich_trend does not write
ScoreEnriched ==
    /\ e_pc = "done"
    /\ e_pc' = "scored"
    /\ e_trend' = [e_trend EXCEPT
                      !.pr_potential_score = Float(CalculatePRPotential(e_trend).v),
                      !.viral_potential_score = Float(CalculateViralityPotential(
                          [e_trend EXCEPT !.pr_potential_score =
                              Float(CalculatePRPotential(e_trend).v)]).v),
                      !.brand_safety_score = Float(CalculateBrandSafetyScore(e_trend).v)]
    /\ UNCHANGED <<settings, gatewayVars, callerVars, catVars, redditVars, envVars,
                   scoreVars,
                   now, db, session, dailyVars, decayVars, e_metadata, e_results,
                   e_stored, e_outcome>>

NextEnrich ==
    \/ EnrichTrendCalled
    \/ SubQueryCompletes
    \/ EnrichCompletes
    \/ ScoreEnriched

SpecEnrich == InitEnrich /\ [][NextEnrich]_vars

\* C18: whatever subset of the six sub-queries fails, enrich_trend returns
\* without raising, every failed facet is stored as its empty value and
\* every other facet is stored with the result its sub-query returned.
C18_FacetsIsolated ==
    e_pc = "done"
    => /\ e_outcome = "returned"
       /\ \A f \in Facets : e_stored[f] = FacetStored(e_results[f])

\* the trend with the enrichment bundle of this pass where the scoring
\* functions read it
WithBundle(trend, results) == [trend EXCEPT !.trend_metadata = EnrichmentData(results)]

\* C30: the PR-potential, viral-potential and brand-safety scores an advanced
\* scoring pass gives a trend are the ones computed from the enrichment
\* bundle enrich_trend produced for it in that pass.
C30_ScoresReadEnrichment ==
    e_pc = "scored"
    => LET enriched == WithBundle(e_trend, e_results)
       IN /\ e_trend.pr_potential_score = Float(CalculatePRPotential(enriched).v)
          /\ e_trend.viral_potential_score = Float(CalculateViralityPotential(enriched).v)
          /\ e_trend.brand_safety_score = Float(CalculateBrandSafetyScore(enriched).v)

-----------------------------------------------------------------------------
(* SpecTimeout: provider calls that may never complete *)

\* OpenAIProvider.generate and AnthropicProvider.generate (ai_service.py lines
\* 48-62, 76-93, 107-126) await the SDK call with no timeout argument, and
\* generate_with_fallback (lines 172, 191) awaits provider.generate with no
\* asyncio.wait_for.  settings.AI_CATEGORIZATION_TIMEOUT (config.py line 69) is
\* read nowhere.  A provider in h_silent never completes its call, and the
\* source holds no step that ends the await.
SilentChoices == SUBSET {"openrouter", "openai", "anthropic"}

\* the awaited provider answers (with a reply or an exception)
Responds(name) == name \notin h_silent

TimeoutArgs ==
    {args \in CategorizerArgs :
        /\ ~args.reddit_metadata.over_18 /\ ~args.reddit_metadata.locked
        /\ args.reddit_metadata.gilded = 0 /\ args.reddit_metadata.awards_received = 0}

TimeoutReplies ==
    {[NoReply EXCEPT !.json = "invalid"],
     [NoReply EXCEPT !.json = "object", !.safety_level = "SAFE", !.confidence = Num(9)]}

TimeoutCategorize == CategorizeContent(TimeoutArgs)

TimeoutPrimaryAnswers ==
    /\ Responds(default_provider)
    /\ CategorizerPrimary(TimeoutReplies) \/ CallerPrimary

TimeoutFallbackAnswers ==
    /\ g_pc = "fallback"
    /\ Responds(providers[g_idx])
    /\ CategorizerFallback(TimeoutReplies) \/ CallerFallback

InitTimeout ==
    /\ settings \in ProviderSettings
    /\ GatewayInit(settings)
    /\ CallersIdle
    /\ CategorizerIdle
    /\ RedditInit(settings)
    /\ StoreTasksIdle
    /\ RaceIdle
    /\ h_silent \in SilentChoices

NextTimeout ==
    \/ TimeoutCategorize
    \/ CategorizeResumes
    \/ AnalyzeTrendSustainability
    \/ AnalyzeResumes
    \/ GenerateCampaignIdeas
    \/ IdeasResume
    \/ TimeoutPrimaryAnswers
    \/ TimeoutFallbackAnswers

SpecTimeout == InitTimeout /\ [][NextTimeout]_vars

\* the event loop runs every coroutine that is ready
FairSpecTimeout == SpecTimeout /\ WF_vars(NextTimeout)

\* C21: every categorize_content call and every gateway caller that is
\* awaiting the provider chain eventually returns, also when the awaited
\* provider never answers.
C21_NoCallBlocksForever ==
    /\ (c_pc = "awaiting") ~> (c_pc = "done")
    /\ (a_pc = "awaiting") ~> (a_pc = "done")

-----------------------------------------------------------------------------
(* decay, advanced scoring and archival over the life of a trend *)

\* a step in which a decay pass has gone over the table
DecayPassRan == t_passes' = t_passes + 1

DecayedColumns == {"score", "sustainability_score", "pr_potential_score"}

ScoreVector == {"score", "pr_potential_score", "viral_potential_score", "brand_safety_score"}

\* the trend is as the advanced scoring pass of this day left it: only that
\* pass sets viral_potential_score and moves updated_at, and no decay pass
\* has gone over the table since
ScoredToday(trend) ==
    /\ trend.viral_potential_score.t # "none"
    /\ trend.updated_at = now
    /\ t_decayed_at < now

-----------------------------------------------------------------------------
(* SpecLifecycle: daily runs, decay and the weekly cleanup over a month *)

\* cutoff of _cleanup_old_trends_async (daily_analysis.py line 296), in days
CleanupAgeDays == 30

\* a month passes between tasks: the trends stored so far leave the recency
\* window and pass the cleanup cutoff
AdvanceMonth ==
    /\ NoTaskRunning
    /\ now <= MaxDay
    /\ now' = now + CleanupAgeDays + 1
    /\ UNCHANGED <<settings, gatewayVars, callerVars, catVars, redditVars, envVars,
                   scoreVars,
                   db, session, dailyVars, decayVars, enrichVars>>

\* lines 301-324: what the cleanup sets before its commit
Archived(rows, today) ==
    [i \in 1..Len(rows) |->
        IF rows[i].created_at < today - CleanupAgeDays /\ rows[i].status \in {"active", "draft"}
        THEN [rows[i] EXCEPT !.status = "archived"]
        ELSE rows[i]]

\* _cleanup_old_trends_async (lines 286-339): active trends and draft
\* campaigns past the cutoff are archived in one commit; a failing commit is
\* rolled back
CleanupOldTrends ==
    /\ NoTaskRunning
    /\ \E committed \in BoolSet :
          db' = IF committed
                THEN [trends |-> Archived(db.trends, now),
                      campaigns |-> Archived(db.campaigns, now)]
                ELSE db
    /\ session' = db'
    /\ UNCHANGED <<settings, gatewayVars, callerVars, catVars, redditVars, envVars,
                   scoreVars,
                   now, dailyVars, decayVars, enrichVars>>

\* one or two candidates a run, with the same title in every run
LifecycleRunStarts == RunStarts(MaxRuns + 1)
LifecycleCollectGoogle == Collect("google", PipelineGoogle, {FALSE})
LifecycleCollectNews == Collect("news", PipelineNews, {FALSE})
LifecycleCollectReddit == Collect("reddit", {<<>>}, {TRUE})
LifecycleScoreTrend == ScoreStep({})
LifecycleGenerateCampaigns == CampaignStep({1})

InitLifecycle ==
    /\ settings = DefaultSettings
    /\ GatewayInit(settings)
    /\ CallersIdle
    /\ CategorizerIdle
    /\ RedditInit(settings)
    /\ TasksIdle

NextLifecycle ==
    \/ LifecycleRunStarts
    \/ LifecycleCollectGoogle
    \/ LifecycleCollectNews
    \/ LifecycleCollectReddit
    \/ DedupStep
    \/ LifecycleScoreTrend
    \/ LifecycleGenerateCampaigns
    \/ Commit
    \/ AdvanceClock
    \/ AdvanceMonth
    \/ DecayPass
    \/ CleanupOldTrends

SpecLifecycle == InitLifecycle /\ [][NextLifecycle]_vars

\* the row is archived in store and still is in store2, with the title,
\* volume and platforms it had: nothing was merged into it
StaysArchived(store, store2) ==
    \A i \in 1..Len(store.trends) :
        store.trends[i].status = "archived"
        => /\ i <= Len(store2.trends)
           /\ store2.trends[i].status = "archived"
           /\ store2.trends[i].title = store.trends[i].title
           /\ store2.trends[i].volume = store.trends[i].volume
           /\ store2.trends[i].platforms = store.trends[i].platforms

\* C29: no step of a daily run, a decay pass or the cleanup sets an archived
\* trend back to active or merges a candidate into it, in the table and in
\* the session of a run that is not rolled back, and no step makes the
\* number of stored trends smaller.
C29_ArchivalAbsorbing ==
    [][/\ Len(db'.trends) >= Len(db.trends)
       /\ StaysArchived(db, db')
       /\ d_pc' # "failed" => StaysArchived(session, session')]_vars

\* a later run met an archived trend with its candidate's title and stored a
\* new trend next to it; the cleanup has archived a trend as well
C29_Witness ==
    \E i, j \in 1..Len(db.trends) :
        /\ i < j
        /\ db.trends[i].status = "archived"
        /\ db.trends[j].title = db.trends[i].title
        /\ db.trends[j].status = "active"
        /\ db.trends[j].created_at <= db.trends[i].created_at + RecencyWindowDays

-----------------------------------------------------------------------------
(* SpecRanking: a run with more retained trends than campaigns are made for *)

\* headlines none of which contains another
RankingLetters == <<"c", "d", "e", "f", "g", "h", "i", "j", "k", "l", "m", "n", "o", "p">>

\* base scores of the candidates, in the order collected
RankingOrders == {"rising", "falling", "level", "mixed"}

RankingScore(order, i) ==
    CASE order = "rising" -> 400 + 40 * i
      [] order = "falling" -> 960 - 40 * i
      [] order = "level" -> 600
      [] order = "mixed" -> IF i % 2 = 1 THEN 500 ELSE 900 - 20 * i

RankingGoogle ==
    {[i \in 1..MaxRetained |->
         Candidate(<<RankingLetters[i]>>, RankingScore(order, i), 1, "google", "general")] :
        order \in RankingOrders}

RankingRunStarts == RunStarts(1)
RankingCollectGoogle == Collect("google", RankingGoogle, {FALSE})
RankingCollectNews == Collect("news", {<<>>}, {FALSE})
RankingCollectReddit == Collect("reddit", {<<>>}, {TRUE})
RankingScoreTrend == ScoreStep({})
RankingGenerateCampaigns == CampaignStep({1})

InitRanking ==
    /\ settings = DefaultSettings
    /\ GatewayInit(settings)
    /\ CallersIdle
    /\ CategorizerIdle
    /\ RedditInit(settings)
    /\ TasksIdle

NextRanking ==
    \/ RankingRunStarts
    \/ RankingCollectGoogle
    \/ RankingCollectNews
    \/ RankingCollectReddit
    \/ DedupStep
    \/ RankingScoreTrend
    \/ RankingGenerateCampaigns
    \/ Commit

SpecRanking == InitRanking /\ [][NextRanking]_vars

\* the trends _score_and_filter_trends returned
RetainedRows == {d_scored[i] : i \in 1..Len(d_scored)}

\* the trends of the run's session that campaign ideas were stored for
HandedRows ==
    {session.campaigns[c].trend : c \in (Len(db.campaigns) + 1)..Len(session.campaigns)}

\* _generate_campaign_angles has returned
GenerationDone == d_pc = "commit"

\* C26: when campaign generation has returned, the trends it was handed are
\* retained trends, at most K = 10 of them and all of them if no more than K
\* were retained, and each has a ranking key 0.6 * score + 0.4 * sustainability
\* not below that of any retained trend it was not handed.
C26_TopKByCombinedScore ==
    GenerationDone
    => /\ HandedRows \subseteq RetainedRows
       /\ Cardinality(HandedRows) = Min(TopK, Cardinality(RetainedRows))
       /\ Len(session.campaigns) - Len(db.campaigns) <= TopK
       /\ \A h \in HandedRows, r \in RetainedRows \ HandedRows :
             CombinedScore(session.trends[h]) >= CombinedScore(session.trends[r])

\* more than K trends were retained, and one collected late was handed over
\* while one collected before it, with a smaller key, was not
C26_Witness ==
    /\ GenerationDone
    /\ Cardinality(RetainedRows) > TopK
    /\ \E h \in HandedRows, r \in RetainedRows \ HandedRows :
          /\ r < h
          /\ CombinedScore(session.trends[h]) > CombinedScore(session.trends[r])

-----------------------------------------------------------------------------
(* SpecRace: two daily runs on two workers.  Each run is followed through  *)
(* the lookup and the commit of its first candidate; the lookup reads the  *)
(* committed rows (the run's session holds nothing pending before it), and *)
(* nothing between the lookup and db.commit() (daily_analysis.py lines     *)
(* 127-159, 92) takes a lock.                                               *)

RaceCandidates == {Candidate(t, Unit, 1, "google", "general") : t \in {<<"a">>, <<"A", "b">>}}

Other(r) == CHOOSE q \in Runs : q # r

\* the run's session is opened and its first candidate reaches the loop
RaceStart(r) ==
    /\ k_pc[r] = "idle"
    /\ \E c \in RaceCandidates : k_cand' = [k_cand EXCEPT ![r] = c]
    /\ k_pc' = [k_pc EXCEPT ![r] = "query"]
    /\ k_overlap' = (k_overlap \/ k_pc[Other(r)] \in {"query", "write"})
    /\ UNCHANGED <<settings, gatewayVars, callerVars, catVars, redditVars, liveVars,
                   scoreVars, storeVars, dailyVars, decayVars, enrichVars, k_plan>>

\* lines 127-135: the lookup; scalar_one_or_none raises on several rows
RaceQuery(r) ==
    /\ k_pc[r] = "query"
    /\ LET matches == ExistingMatches(db, k_cand[r], now)
       IN IF Cardinality(matches) > 1
          THEN /\ k_pc' = [k_pc EXCEPT ![r] = "failed"]
               /\ UNCHANGED k_plan
          ELSE /\ k_pc' = [k_pc EXCEPT ![r] = "write"]
               /\ k_plan' = [k_plan EXCEPT ![r] =
                     IF matches = {} THEN [t |-> "create", row |-> 0]
                     ELSE [t |-> "merge", row |-> CHOOSE i \in matches : TRUE]]
    /\ UNCHANGED <<settings, gatewayVars, callerVars, catVars, redditVars, liveVars,
                   scoreVars, storeVars, dailyVars, decayVars, enrichVars, k_cand, k_overlap>>

\* lines 137-159, 182-205 and 92: the trend is merged into or created, scored,
\* and the run commits; or the run fails and is rolled back
RaceCommit(r) ==
    /\ k_pc[r] = "write"
    /\ \E committed \in BoolSet :
          IF committed
          THEN /\ k_pc' = [k_pc EXCEPT ![r] = "done"]
               /\ LET stored == IF k_plan[r].t = "create"
                                THEN [NewTrend(k_cand[r], now) EXCEPT !.flushed = TRUE]
                                ELSE MergeInto(db.trends[k_plan[r].row], k_cand[r], now)
                  IN \E analysis \in {Analysis(Float(FallbackSustainabilityScore(stored))),
                                      NotADict} :
                        db' = [db EXCEPT !.trends =
                                  IF k_plan[r].t = "create"
                                  THEN Append(@, Scored(stored, analysis))
                                  ELSE [@ EXCEPT ![k_plan[r].row] = Scored(stored, analysis)]]
               /\ session' = db'
          ELSE /\ k_pc' = [k_pc EXCEPT ![r] = "failed"]
               /\ UNCHANGED <<db, session>>
    /\ UNCHANGED <<settings, gatewayVars, callerVars, catVars, redditVars, liveVars,
                   scoreVars, now, dailyVars, decayVars, enrichVars, k_cand, k_plan,
                   k_overlap>>

RaceStarts == \E r \in Runs : RaceStart(r)
RaceQueries == \E r \in Runs : RaceQuery(r)
RaceCommits == \E r \in Runs : RaceCommit(r)

InitRace ==
    /\ settings = DefaultSettings
    /\ GatewayInit(settings)
    /\ CallersIdle
    /\ CategorizerIdle
    /\ RedditInit(settings)
    /\ TasksIdle

NextRace == RaceStarts \/ RaceQueries \/ RaceCommits

SpecRace == InitRace /\ [][NextRace]_vars

\* two active trends with one title are stored
DuplicateActiveTitles ==
    \E i, j \in 1..Len(db.trends) :
        /\ i < j
        /\ db.trends[i].status = "active"
        /\ db.trends[j].status = "active"
        /\ db.trends[i].title = db.trends[j].title

\* duplicates are stored only by runs that overlapped; holds of the titles
\* without LIKE metacharacters that SpecRace draws
RaceNeedsOverlap == DuplicateActiveTitles => k_overlap

NoRaceDuplicates == ~DuplicateActiveTitles

====
